---- MODULE Spec2Model ----
(***************************************************************************)
(* Model of the governance and launch engine of headless-markets:          *)
(*   - contract AgentQuorum          (src/app/launch/page.tsx:125-459)     *)
(*   - contract BondingCurveFactory  (src/app/launch/page.tsx:472-612)     *)
(* Every external function is one atomic action (a transaction).  A        *)
(* transaction whose require fails reverts: it leaves the whole state      *)
(* unchanged, so it is a stuttering step.  For each function the operator  *)
(* <function>Result gives the revert reason of a call ("ok" when none) and *)
(* the action applies the function's writes when the result is "ok".       *)
(* Strings that no require reads (tokenName, tokenSymbol, description) are *)
(* left out of the Proposal record.  Time is counted in days.              *)
(* The curve market (BondingCurve.sol, imported at page.tsx:464) has no    *)
(* source here; its ledger and its operations buy, sell and migrate follow *)
(* spec.md sections 3, 4.3 and 4.4, amounts counted in ETH.                *)
(***************************************************************************)
EXTENDS Integers, Sequences, FiniteSets, TLC

\* ---------------------------------------------------------------- addresses
ZeroAddress == "0x0"

\* msg.sender of the AgentQuorum constructor
Deployer == "admin"

\* identities the admin may verify
Agents == {"a1", "a2", "a3", "a4", "a5"}

\* externally owned accounts that send transactions
Accounts == {Deployer} \cup Agents

\* deployed BondingCurveFactory instances, all bound to the one AgentQuorum
Factories == {"f1", "f2"}

\* ---------------------------------------------------------------- constants
MIN_QUORUM_SIZE == 3

MAX_QUORUM_SIZE == 5

\* 7 days
VOTING_PERIOD == 7

\* ------------------------------------------------------------------- bounds
\* createProposal is not taken once this many proposals exist
MaxProposals == 1

\* proposal ids used as arguments: the existing ones and ids never created
PidArgs == 0..MaxProposals

\* quorumMembers arguments of createProposal: one quorum of valid size, one
\* too small, one with a duplicate, one too large
MemberListArgs ==
    { <<"a1", "a2", "a3">>,
      <<"a1", "a2">>,
      <<"a1", "a2", "a1">>,
      <<"a1", "a2", "a3", "a4", "a1", "a2">> }

\* agent arguments of verifyAgent
VerifyArgs == {"a1", "a2", "a3", "a4"}

\* msg.sender of castVote
VoterArgs == {Deployer, "a1", "a2", "a3", "a4"}

\* SpecWide: createProposal is not taken once this many proposals exist
MaxWideProposals == 1

\* SpecWide: quorums of every valid size, one too small, one too large
WideMemberListArgs ==
    { <<"a1", "a2", "a3">>,
      <<"a1", "a2", "a3", "a4">>,
      <<"a1", "a2", "a3", "a4", "a5">>,
      <<"a1", "a2">>,
      <<"a1", "a2", "a3", "a4", "a5", "a1">> }

\* msg.sender of createProposal: a member, a non-member agent, the admin
ProposerArgs == {"a1", "a4", Deployer}

\* msg.sender of the functions only one address may call: that address and
\* another one
AdminArgs == {Deployer, "a1"}

\* msg.sender of the functions anyone may call
AnyoneArgs == {"a4"}

\* agent arguments of unverifyAgent: a member of the quorum and a non-member
UnverifyArgs == {"a3", "a4"}

\* _factory arguments of setBondingCurveFactory: the factories, the zero
\* address and an account that is no contract
FactoryArgs == Factories \cup {ZeroAddress, Deployer}

\* ------------------------------------------------------------------- state
VARIABLES
    now,                  \* block.timestamp
    admin,                \* AgentQuorum.admin
    verifiedAgents,       \* AgentQuorum.verifiedAgents
    agentReputation,      \* AgentQuorum.agentReputation
    bondingCurveFactory,  \* AgentQuorum.bondingCurveFactory
    proposals,            \* AgentQuorum.proposals
    proposalCount,        \* AgentQuorum.proposalCount
    proposalToToken,      \* BondingCurveFactory.proposalToToken, per factory
    allTokens,            \* BondingCurveFactory.allTokens, per factory
    tokens,               \* the BondingCurveToken contracts that exist
    market,               \* the ledger of one curve market instance
    db                    \* the relational mirror: agents, quorum_members, markets

vars == <<now, admin, verifiedAgents, agentReputation, bondingCurveFactory,
          proposals, proposalCount, proposalToToken, allTokens, tokens, market, db>>

quorumVars == <<admin, verifiedAgents, agentReputation, bondingCurveFactory,
                proposals, proposalCount>>

factoryVars == <<proposalToToken, allTokens, tokens>>

\* enum ProposalStatus
ProposalStatus == {"Active", "Passed", "Failed", "Executed"}

\* a storage slot of `proposals` that was never written: every field is zero,
\* and the zero of ProposalStatus is Active
Proposal ==
    [ proposalId     |-> 0,
      proposer       |-> ZeroAddress,
      quorumMembers  |-> << >>,
      hasVoted       |-> [a \in Accounts |-> FALSE],
      voteChoice     |-> [a \in Accounts |-> FALSE],
      yesVotes       |-> 0,
      noVotes        |-> 0,
      createdAt      |-> 0,
      votingDeadline |-> 0,
      status         |-> "Active" ]

Range(s) == {s[i] : i \in 1..Len(s)}

\* the address of the n-th contract a factory creates
TokenAddress(f, n) == f \o "/token" \o ToString(n)

\* ----------------------------------------------------------- the curve market
\* the callers of buy and sell
Traders == {"t1", "t2"}

\* the orchestrator, the one caller migrate accepts
Orchestrator == "f1"

\* configuration of the market instance, fixed at its creation
TotalSupplyCap == 3
BasePrice == 1
Slope == 1
GraduationThreshold == 10
PlatformBps == 3000
LiquidityBps == 6000
AgentBps == 1000

\* the rate, in basis points of the gross refund, that a sell pays in fees
FeeRateArgs == {0, 100}

\* a market as its creation leaves it
Market(feeRate) ==
    [ totalSupplyCap      |-> TotalSupplyCap,
      basePrice           |-> BasePrice,
      slope               |-> Slope,
      graduationThreshold |-> GraduationThreshold,
      platformBps         |-> PlatformBps,
      liquidityBps        |-> LiquidityBps,
      agentBps            |-> AgentBps,
      feeRateBps          |-> feeRate,
      currentSupply       |-> 0,
      ethRaised           |-> 0,
      graduated           |-> FALSE,
      migrated            |-> FALSE,
      platformFees        |-> 0,
      liquidityFees       |-> 0,
      agentFees           |-> 0,
      venueLiquidity      |-> 0,
      balances            |-> [t \in Traders |-> 0],
      trades              |-> << >> ]

\* a / b rounded up
CeilDiv(a, b) == (a + b - 1) \div b

\* currentPrice is derived from the supply
currentPrice(m) == m.basePrice + m.slope * m.currentSupply

\* the integral of the linear price over d tokens above the current supply,
\* rounded up: what minting them costs
buyCost(m, d) ==
    m.basePrice * d + CeilDiv(m.slope * d * (2 * m.currentSupply + d), 2)

\* the same integral over the d tokens below the current supply, rounded
\* down: the gross refund of burning them
sellRefund(m, d) ==
    m.basePrice * d + (m.slope * d * (2 * (m.currentSupply - d) + d)) \div 2

\* the quadratic solve: the most tokens ethAmount pays for
tokensFor(m, ethAmount) ==
    CHOOSE d \in 0..ethAmount :
        /\ buyCost(m, d) <= ethAmount
        /\ \A e \in (d + 1)..ethAmount : buyCost(m, e) > ethAmount

\* feeSplit that rounds each of the three shares down
feeSplit_floorAll(m, base) ==
    [ platformFee  |-> (base * m.platformBps) \div 10000,
      liquidityFee |-> (base * m.liquidityBps) \div 10000,
      agentFee     |-> (base * m.agentBps) \div 10000 ]

\* the split of a fee base over the three recipient classes
feeSplit(m, base) ==
    LET platform == (base * m.platformBps) \div 10000
        liquidity == (base * m.liquidityBps) \div 10000
    IN  [ platformFee  |-> platform,
          liquidityFee |-> liquidity,
          agentFee     |-> base - platform - liquidity ]

\* sellFee rounded down
sellFee_roundDown(m, gross) == (gross * m.feeRateBps) \div 10000

\* the fee portion of a gross refund, rounded up
sellFee(m, gross) == CeilDiv(gross * m.feeRateBps, 10000)

\* buyResult without the supply cap check
buyResult_noCap(sender, ethAmount) ==
    IF market.graduated THEN "MarketClosed"
    ELSE IF ~(ethAmount > 0) THEN "ZeroAmount"
    ELSE "ok"

buyResult(sender, ethAmount) ==
    IF market.graduated THEN "MarketClosed"
    ELSE IF ~(ethAmount > 0) THEN "ZeroAmount"
    ELSE IF market.currentSupply + tokensFor(market, ethAmount)
                > market.totalSupplyCap
         THEN "SupplyExceeded"
    ELSE "ok"

\* buyWrites that records the price read before the supply was updated
buyWrites_stalePrice(sender, ethAmount) ==
    LET d == tokensFor(market, ethAmount)
        f == feeSplit(market, ethAmount)
        raised == market.ethRaised + ethAmount
        m == [market EXCEPT !.currentSupply = @ + d,
                            !.ethRaised = raised,
                            !.platformFees = @ + f.platformFee,
                            !.liquidityFees = @ + f.liquidityFee,
                            !.agentFees = @ + f.agentFee,
                            !.balances[sender] = @ + d]
    IN  [m EXCEPT !.trades = Append(@,
                      [ isBuy        |-> TRUE,
                        trader       |-> sender,
                        tokenAmount  |-> d,
                        ethAmount    |-> ethAmount,
                        netAmount    |-> ethAmount,
                        platformFee  |-> f.platformFee,
                        liquidityFee |-> f.liquidityFee,
                        agentFee     |-> f.agentFee,
                        supplyAfter  |-> m.currentSupply,
                        priceAfter   |-> currentPrice(market) ]),
                  !.graduated = raised >= market.graduationThreshold]

\* buyWrites that tests the threshold against ethRaised as it was before
\* the buy
buyWrites_lateGraduation(sender, ethAmount) ==
    LET d == tokensFor(market, ethAmount)
        f == feeSplit(market, ethAmount)
        raised == market.ethRaised + ethAmount
        m == [market EXCEPT !.currentSupply = @ + d,
                            !.ethRaised = raised,
                            !.platformFees = @ + f.platformFee,
                            !.liquidityFees = @ + f.liquidityFee,
                            !.agentFees = @ + f.agentFee,
                            !.balances[sender] = @ + d]
    IN  [m EXCEPT !.trades = Append(@,
                      [ isBuy        |-> TRUE,
                        trader       |-> sender,
                        tokenAmount  |-> d,
                        ethAmount    |-> ethAmount,
                        netAmount    |-> ethAmount,
                        platformFee  |-> f.platformFee,
                        liquidityFee |-> f.liquidityFee,
                        agentFee     |-> f.agentFee,
                        supplyAfter  |-> m.currentSupply,
                        priceAfter   |-> currentPrice(m) ]),
                  !.graduated = market.ethRaised >= market.graduationThreshold]

\* buyWrites that, when the trade before it is a buy of another trader,
\* sizes the mint on the supply as it was before that buy
buyWrites_snapshot(sender, ethAmount) ==
    LET t == market.trades
        prev == t[Len(t)]
        snapshot == IF t # << >> /\ prev.isBuy /\ prev.trader # sender
                    THEN [market EXCEPT !.currentSupply =
                                 prev.supplyAfter - prev.tokenAmount]
                    ELSE market
        d == tokensFor(snapshot, ethAmount)
        f == feeSplit(market, ethAmount)
        raised == market.ethRaised + ethAmount
        m == [market EXCEPT !.currentSupply = @ + d,
                            !.ethRaised = raised,
                            !.platformFees = @ + f.platformFee,
                            !.liquidityFees = @ + f.liquidityFee,
                            !.agentFees = @ + f.agentFee,
                            !.balances[sender] = @ + d]
    IN  [m EXCEPT !.trades = Append(@,
                      [ isBuy        |-> TRUE,
                        trader       |-> sender,
                        tokenAmount  |-> d,
                        ethAmount    |-> ethAmount,
                        netAmount    |-> ethAmount,
                        platformFee  |-> f.platformFee,
                        liquidityFee |-> f.liquidityFee,
                        agentFee     |-> f.agentFee,
                        supplyAfter  |-> m.currentSupply,
                        priceAfter   |-> currentPrice(m) ]),
                  !.graduated = raised >= market.graduationThreshold]

\* the market after an accepted buy
buyWrites(sender, ethAmount) ==
    LET d == tokensFor(market, ethAmount)
        f == feeSplit(market, ethAmount)
        raised == market.ethRaised + ethAmount
        m == [market EXCEPT !.currentSupply = @ + d,
                            !.ethRaised = raised,
                            !.platformFees = @ + f.platformFee,
                            !.liquidityFees = @ + f.liquidityFee,
                            !.agentFees = @ + f.agentFee,
                            !.balances[sender] = @ + d]
    IN  [m EXCEPT !.trades = Append(@,
                      [ isBuy        |-> TRUE,
                        trader       |-> sender,
                        tokenAmount  |-> d,
                        ethAmount    |-> ethAmount,
                        netAmount    |-> ethAmount,
                        platformFee  |-> f.platformFee,
                        liquidityFee |-> f.liquidityFee,
                        agentFee     |-> f.agentFee,
                        supplyAfter  |-> m.currentSupply,
                        priceAfter   |-> currentPrice(m) ]),
                  !.graduated = raised >= market.graduationThreshold]

buy(sender, ethAmount) ==
    IF buyResult(sender, ethAmount) = "ok"
    THEN /\ market' = buyWrites(sender, ethAmount)
         /\ UNCHANGED <<now, quorumVars, factoryVars, db>>
    ELSE UNCHANGED vars

\* sellResult without the graduated check
sellResult_noClosedCheck(sender, tokenAmount) ==
    IF ~(tokenAmount > 0) THEN "ZeroAmount"
    ELSE IF market.balances[sender] < tokenAmount THEN "InsufficientBalance"
    ELSE IF sellRefund(market, tokenAmount) > market.ethRaised
         THEN "InsufficientRaisedBalance"
    ELSE "ok"

sellResult(sender, tokenAmount) ==
    IF market.graduated THEN "MarketClosed"
    ELSE IF ~(tokenAmount > 0) THEN "ZeroAmount"
    ELSE IF market.balances[sender] < tokenAmount THEN "InsufficientBalance"
    ELSE IF sellRefund(market, tokenAmount) > market.ethRaised
         THEN "InsufficientRaisedBalance"
    ELSE "ok"

\* the market after an accepted sell
sellWrites(sender, tokenAmount) ==
    LET gross == sellRefund(market, tokenAmount)
        fee == sellFee(market, gross)
        f == feeSplit(market, fee)
        m == [market EXCEPT !.currentSupply = @ - tokenAmount,
                            !.ethRaised = @ - gross,
                            !.platformFees = @ + f.platformFee,
                            !.liquidityFees = @ + f.liquidityFee,
                            !.agentFees = @ + f.agentFee,
                            !.balances[sender] = @ - tokenAmount]
    IN  [m EXCEPT !.trades = Append(@,
                      [ isBuy        |-> FALSE,
                        trader       |-> sender,
                        tokenAmount  |-> tokenAmount,
                        ethAmount    |-> gross,
                        netAmount    |-> gross - fee,
                        platformFee  |-> f.platformFee,
                        liquidityFee |-> f.liquidityFee,
                        agentFee     |-> f.agentFee,
                        supplyAfter  |-> m.currentSupply,
                        priceAfter   |-> currentPrice(m) ])]

sell(sender, tokenAmount) ==
    IF sellResult(sender, tokenAmount) = "ok"
    THEN /\ market' = sellWrites(sender, tokenAmount)
         /\ UNCHANGED <<now, quorumVars, factoryVars, db>>
    ELSE UNCHANGED vars

migrateResult(sender) ==
    IF sender # Orchestrator THEN "Unauthorized"
    ELSE IF ~market.graduated THEN "NotGraduated"
    ELSE "ok"

\* migrate that moves the liquidity ledger on every accepted call
migrate_repeat(sender) ==
    IF migrateResult(sender) = "ok"
    THEN /\ market' = [market EXCEPT !.venueLiquidity = @ + market.liquidityFees,
                                     !.migrated = TRUE]
         /\ UNCHANGED <<now, quorumVars, factoryVars, db>>
    ELSE UNCHANGED vars

\* the liquidity share goes to the venue once; a repeated call finds the
\* market migrated and succeeds without a write
migrate(sender) ==
    IF migrateResult(sender) = "ok" /\ ~market.migrated
    THEN /\ market' = [market EXCEPT !.venueLiquidity = @ + market.liquidityFees,
                                     !.liquidityFees = 0,
                                     !.migrated = TRUE]
         /\ UNCHANGED <<now, quorumVars, factoryVars, db>>
    ELSE UNCHANGED vars

\* ------------------------------------------------------- the relational mirror
\* src/db/schema.sql: the tables agents, quorum_members and markets with the
\* columns the trigger function update_agent_reputation reads or writes.
\* A statement whose trigger raises an error is rolled back as a whole.
MirrorQuorums == {"q1", "q2"}

MirrorAgents == {"a1", "a2", "a3"}

MarketIds == {"m1", "m2"}

\* an agents row with its column defaults
Agent ==
    [ reputation_score       |-> 0,
      total_votes_cast       |-> 0,
      total_markets_launched |-> 0,
      successful_graduations |-> 0 ]

\* the mirror once the agents and the quorums are registered: no member row
\* and no market row yet
Mirror ==
    [ agents         |-> [a \in MirrorAgents |-> Agent],
      quorum_members |-> {},
      markets        |-> {} ]

\* SELECT agent_address FROM quorum_members WHERE quorum_id = q
MembersOfQuorum(d, q) ==
    {r.agent_address : r \in {x \in d.quorum_members : x.quorum_id = q}}

\* PL/pgSQL resolves every column of new and old that an expression names
\* when it prepares the expression, before any operand is evaluated
NoField(field) == "record \"new\" has no field \"" \o field \o "\""

\* the trigger function, run AFTER the row change on mirror d: the error it
\* raises ("ok" when none) and the agents table it leaves
update_agent_reputation(TG_OP, TG_TABLE_NAME, new, old, d) ==
    LET launched ==
            IF TG_TABLE_NAME = "markets"
            THEN [a \in MirrorAgents |->
                    IF a \in MembersOfQuorum(d, new.quorum_id)
                    THEN [d.agents[a] EXCEPT
                            !.reputation_score = @ + 100,
                            !.total_markets_launched = @ + 1]
                    ELSE d.agents[a]]
            ELSE d.agents
    IN  IF TG_OP = "INSERT"
        THEN IF "has_voted" \notin DOMAIN new
             THEN [error |-> NoField("has_voted"), agents |-> d.agents]
             ELSE [error |-> "ok",
                   agents |->
                     IF TG_TABLE_NAME = "quorum_members" /\ new.has_voted
                     THEN [launched EXCEPT
                             ![new.agent_address].reputation_score = @ + 10,
                             ![new.agent_address].total_votes_cast = @ + 1]
                     ELSE launched]
        ELSE IF TG_OP = "UPDATE"
        THEN IF "graduated" \notin DOMAIN new
             THEN [error |-> NoField("graduated"), agents |-> d.agents]
             ELSE [error |-> "ok",
                   agents |->
                     IF TG_TABLE_NAME = "markets"
                        /\ new.graduated /\ ~old.graduated
                     THEN [a \in MirrorAgents |->
                             IF a \in MembersOfQuorum(d, new.quorum_id)
                             THEN [d.agents[a] EXCEPT
                                     !.reputation_score = @ + 500,
                                     !.successful_graduations = @ + 1]
                             ELSE d.agents[a]]
                     ELSE d.agents]
        ELSE [error |-> "ok", agents |-> d.agents]

\* the quorum_members row of agent a in quorum q, as a set
MemberRows(q, a) ==
    {r \in db.quorum_members : r.quorum_id = q /\ r.agent_address = a}

\* INSERT INTO quorum_members (quorum_id, agent_address, has_voted)
insertQuorumMemberResult(q, a, voted) ==
    LET row == [quorum_id |-> q, agent_address |-> a, has_voted |-> voted]
    IN  IF MemberRows(q, a) # {}
        THEN [error |-> "duplicate key", agents |-> db.agents]
        ELSE update_agent_reputation("INSERT", "quorum_members", row, row,
                 [db EXCEPT !.quorum_members = @ \cup {row}])

insertQuorumMember(q, a, voted) ==
    IF insertQuorumMemberResult(q, a, voted).error = "ok"
    THEN /\ db' = [db EXCEPT
                     !.quorum_members = @ \cup
                         {[quorum_id |-> q, agent_address |-> a,
                           has_voted |-> voted]},
                     !.agents = insertQuorumMemberResult(q, a, voted).agents]
         /\ UNCHANGED <<now, quorumVars, factoryVars, market>>
    ELSE UNCHANGED vars

\* UPDATE quorum_members SET has_voted = voted
\*   WHERE quorum_id = q AND agent_address = a
updateQuorumMemberResult(q, a, voted) ==
    IF MemberRows(q, a) = {}
    THEN [error |-> "ok", agents |-> db.agents]
    ELSE LET old == CHOOSE r \in MemberRows(q, a) : TRUE
             new == [old EXCEPT !.has_voted = voted]
         IN  update_agent_reputation("UPDATE", "quorum_members", new, old,
                 [db EXCEPT !.quorum_members = (@ \ {old}) \cup {new}])

updateQuorumMember(q, a, voted) ==
    IF updateQuorumMemberResult(q, a, voted).error = "ok"
    THEN /\ db' = [db EXCEPT
                     !.quorum_members =
                         {[r EXCEPT !.has_voted =
                               IF r \in MemberRows(q, a) THEN voted ELSE @] :
                          r \in @},
                     !.agents = updateQuorumMemberResult(q, a, voted).agents]
         /\ UNCHANGED <<now, quorumVars, factoryVars, market>>
    ELSE UNCHANGED vars

\* the markets row with primary key id, as a set
MarketRows(id) == {r \in db.markets : r.id = id}

\* INSERT INTO markets (id, quorum_id, graduated)
insertMarketResult(id, q, graduated) ==
    LET row == [id |-> id, quorum_id |-> q, graduated |-> graduated]
    IN  IF MarketRows(id) # {}
        THEN [error |-> "duplicate key", agents |-> db.agents]
        ELSE update_agent_reputation("INSERT", "markets", row, row,
                 [db EXCEPT !.markets = @ \cup {row}])

insertMarket(id, q, graduated) ==
    IF insertMarketResult(id, q, graduated).error = "ok"
    THEN /\ db' = [db EXCEPT
                     !.markets = @ \cup
                         {[id |-> id, quorum_id |-> q, graduated |-> graduated]},
                     !.agents = insertMarketResult(id, q, graduated).agents]
         /\ UNCHANGED <<now, quorumVars, factoryVars, market>>
    ELSE UNCHANGED vars

\* UPDATE markets SET graduated = graduated WHERE id = id
updateMarketResult(id, graduated) ==
    IF MarketRows(id) = {}
    THEN [error |-> "ok", agents |-> db.agents]
    ELSE LET old == CHOOSE r \in MarketRows(id) : TRUE
             new == [old EXCEPT !.graduated = graduated]
         IN  update_agent_reputation("UPDATE", "markets", new, old,
                 [db EXCEPT !.markets = (@ \ {old}) \cup {new}])

updateMarket(id, graduated) ==
    IF updateMarketResult(id, graduated).error = "ok"
    THEN /\ db' = [db EXCEPT
                     !.markets =
                         {[r EXCEPT !.graduated =
                               IF r \in MarketRows(id) THEN graduated ELSE @] :
                          r \in @},
                     !.agents = updateMarketResult(id, graduated).agents]
         /\ UNCHANGED <<now, quorumVars, factoryVars, market>>
    ELSE UNCHANGED vars

\* state after the two constructors
Init ==
    /\ now = 0
    /\ admin = Deployer
    /\ verifiedAgents = [a \in Accounts |-> FALSE]
    /\ agentReputation = [a \in Accounts |-> 0]
    /\ bondingCurveFactory = ZeroAddress
    /\ proposals = [i \in PidArgs |-> Proposal]
    /\ proposalCount = 0
    /\ proposalToToken = [f \in Factories |-> [i \in PidArgs |-> ZeroAddress]]
    /\ allTokens = [f \in Factories |-> << >>]
    /\ tokens = {}
    /\ market = Market(0)
    /\ db = Mirror

\* ------------------------------------------------------------ admin functions
setBondingCurveFactoryResult(sender, factory) ==
    IF sender # admin THEN "Only admin"
    ELSE IF factory = ZeroAddress THEN "Invalid factory address"
    ELSE "ok"

setBondingCurveFactory(sender, factory) ==
    IF setBondingCurveFactoryResult(sender, factory) = "ok"
    THEN /\ bondingCurveFactory' = factory
         /\ UNCHANGED <<now, admin, verifiedAgents, agentReputation, proposals,
                        proposalCount, factoryVars, market, db>>
    ELSE UNCHANGED vars

\* verifyAgentResult without the onlyAdmin modifier
verifyAgentResult_anySender(sender, agent) ==
    IF verifiedAgents[agent] THEN "Agent already verified"
    ELSE "ok"

verifyAgentResult(sender, agent) ==
    IF sender # admin THEN "Only admin"
    ELSE IF verifiedAgents[agent] THEN "Agent already verified"
    ELSE "ok"

verifyAgent(sender, agent) ==
    IF verifyAgentResult(sender, agent) = "ok"
    THEN /\ verifiedAgents' = [verifiedAgents EXCEPT ![agent] = TRUE]
         /\ UNCHANGED <<now, admin, agentReputation, bondingCurveFactory,
                        proposals, proposalCount, factoryVars, market, db>>
    ELSE UNCHANGED vars

\* unverifyAgentResult without the "Agent not verified" require
unverifyAgentResult_idempotent(sender, agent) ==
    IF sender # admin THEN "Only admin"
    ELSE "ok"

unverifyAgentResult(sender, agent) ==
    IF sender # admin THEN "Only admin"
    ELSE IF ~verifiedAgents[agent] THEN "Agent not verified"
    ELSE "ok"

unverifyAgent(sender, agent) ==
    IF unverifyAgentResult(sender, agent) = "ok"
    THEN /\ verifiedAgents' = [verifiedAgents EXCEPT ![agent] = FALSE]
         /\ UNCHANGED <<now, admin, agentReputation, bondingCurveFactory,
                        proposals, proposalCount, factoryVars, market, db>>
    ELSE UNCHANGED vars

\* ------------------------------------------------------------- createProposal
\* the loop of lines 264-271: the revert reason of the first failing require,
\* in the order the loop meets them
quorumMembersCheck(quorumMembers) ==
    LET n == Len(quorumMembers)
        dup(i) == \E j \in (i + 1)..n : quorumMembers[i] = quorumMembers[j]
        bad == {i \in 1..n : ~verifiedAgents[quorumMembers[i]] \/ dup(i)}
    IN  IF bad = {} THEN "ok"
        ELSE LET i == CHOOSE k \in bad : \A l \in bad : k <= l
             IN  IF ~verifiedAgents[quorumMembers[i]]
                 THEN "Invalid quorum member"
                 ELSE "Duplicate quorum member"

\* createProposalResult without the "Proposer must be in quorum" require
createProposalResult_noProposerCheck(sender, quorumMembers) ==
    IF ~verifiedAgents[sender] THEN "Not verified agent"
    ELSE IF Len(quorumMembers) < MIN_QUORUM_SIZE THEN "Quorum too small"
    ELSE IF Len(quorumMembers) > MAX_QUORUM_SIZE THEN "Quorum too large"
    ELSE IF quorumMembersCheck(quorumMembers) # "ok"
         THEN quorumMembersCheck(quorumMembers)
    ELSE "ok"

\* createProposalResult that runs the member loop before the two length
\* requires
createProposalResult_loopFirst(sender, quorumMembers) ==
    IF ~verifiedAgents[sender] THEN "Not verified agent"
    ELSE IF quorumMembersCheck(quorumMembers) # "ok"
         THEN quorumMembersCheck(quorumMembers)
    ELSE IF Len(quorumMembers) < MIN_QUORUM_SIZE THEN "Quorum too small"
    ELSE IF Len(quorumMembers) > MAX_QUORUM_SIZE THEN "Quorum too large"
    ELSE IF sender \notin Range(quorumMembers) THEN "Proposer must be in quorum"
    ELSE "ok"

createProposalResult(sender, quorumMembers) ==
    IF ~verifiedAgents[sender] THEN "Not verified agent"
    ELSE IF Len(quorumMembers) < MIN_QUORUM_SIZE THEN "Quorum too small"
    ELSE IF Len(quorumMembers) > MAX_QUORUM_SIZE THEN "Quorum too large"
    ELSE IF quorumMembersCheck(quorumMembers) # "ok"
         THEN quorumMembersCheck(quorumMembers)
    ELSE IF sender \notin Range(quorumMembers) THEN "Proposer must be in quorum"
    ELSE "ok"

\* createProposal that does not increment proposalCount
createProposal_noIncrement(sender, quorumMembers) ==
    IF createProposalResult(sender, quorumMembers) = "ok"
    THEN /\ proposals' = [proposals EXCEPT ![proposalCount] =
                [ proposalId     |-> proposalCount,
                  proposer       |-> sender,
                  quorumMembers  |-> quorumMembers,
                  hasVoted       |-> @.hasVoted,
                  voteChoice     |-> @.voteChoice,
                  yesVotes       |-> @.yesVotes,
                  noVotes        |-> @.noVotes,
                  createdAt      |-> now,
                  votingDeadline |-> now + VOTING_PERIOD,
                  status         |-> "Active" ]]
         /\ UNCHANGED <<now, admin, verifiedAgents, agentReputation,
                        bondingCurveFactory, proposalCount, factoryVars, market, db>>
    ELSE UNCHANGED vars

createProposal(sender, quorumMembers) ==
    IF createProposalResult(sender, quorumMembers) = "ok"
    THEN /\ proposalCount' = proposalCount + 1
         /\ proposals' = [proposals EXCEPT ![proposalCount] =
                [ proposalId     |-> proposalCount,
                  proposer       |-> sender,
                  quorumMembers  |-> quorumMembers,
                  hasVoted       |-> @.hasVoted,
                  voteChoice     |-> @.voteChoice,
                  yesVotes       |-> @.yesVotes,
                  noVotes        |-> @.noVotes,
                  createdAt      |-> now,
                  votingDeadline |-> now + VOTING_PERIOD,
                  status         |-> "Active" ]]
         /\ UNCHANGED <<now, admin, verifiedAgents, agentReputation,
                        bondingCurveFactory, factoryVars, market, db>>
    ELSE UNCHANGED vars

\* ------------------------------------------------------------------- castVote
\* proposalExists that lets the next id through
proposalExists_offByOne(proposalId) ==
    IF proposalId <= proposalCount THEN "ok" ELSE "Proposal does not exist"

\* modifier proposalExists
proposalExists(proposalId) ==
    IF proposalId < proposalCount THEN "ok" ELSE "Proposal does not exist"

\* proposalActive without the status require
proposalActive_noStatus(proposalId) ==
    IF ~(now <= proposals[proposalId].votingDeadline)
    THEN "Voting period ended"
    ELSE "ok"

\* proposalActive without the votingDeadline require
proposalActive_noDeadline(proposalId) ==
    IF proposals[proposalId].status # "Active" THEN "Proposal not active"
    ELSE "ok"

\* modifier proposalActive
proposalActive(proposalId) ==
    IF proposals[proposalId].status # "Active" THEN "Proposal not active"
    ELSE IF ~(now <= proposals[proposalId].votingDeadline)
         THEN "Voting period ended"
    ELSE "ok"

\* castVoteResult without the quorum membership require
castVoteResult_anyone(sender, proposalId) ==
    IF proposalExists(proposalId) # "ok" THEN proposalExists(proposalId)
    ELSE IF proposalActive(proposalId) # "ok" THEN proposalActive(proposalId)
    ELSE IF proposals[proposalId].hasVoted[sender] THEN "Already voted"
    ELSE "ok"

\* castVoteResult without the "Already voted" require
castVoteResult_revote(sender, proposalId) ==
    IF proposalExists(proposalId) # "ok" THEN proposalExists(proposalId)
    ELSE IF proposalActive(proposalId) # "ok" THEN proposalActive(proposalId)
    ELSE IF sender \notin Range(proposals[proposalId].quorumMembers)
         THEN "Not a quorum member"
    ELSE "ok"

\* castVoteResult that also requires the voter to be verified
castVoteResult_verifiedOnly(sender, proposalId) ==
    IF ~verifiedAgents[sender] THEN "Not verified agent"
    ELSE IF proposalExists(proposalId) # "ok" THEN proposalExists(proposalId)
    ELSE IF proposalActive(proposalId) # "ok" THEN proposalActive(proposalId)
    ELSE IF sender \notin Range(proposals[proposalId].quorumMembers)
         THEN "Not a quorum member"
    ELSE IF proposals[proposalId].hasVoted[sender] THEN "Already voted"
    ELSE "ok"

castVoteResult(sender, proposalId) ==
    IF proposalExists(proposalId) # "ok" THEN proposalExists(proposalId)
    ELSE IF proposalActive(proposalId) # "ok" THEN proposalActive(proposalId)
    ELSE IF sender \notin Range(proposals[proposalId].quorumMembers)
         THEN "Not a quorum member"
    ELSE IF proposals[proposalId].hasVoted[sender] THEN "Already voted"
    ELSE "ok"

\* _checkProposalStatus that fails a proposal only once every member has voted
checkProposalStatus_waitAll(p) ==
    IF p.noVotes > 0 /\ p.yesVotes + p.noVotes = Len(p.quorumMembers)
    THEN [p EXCEPT !.status = "Failed"]
    ELSE IF p.yesVotes = Len(p.quorumMembers)
         THEN [p EXCEPT !.status = "Passed"]
    ELSE p

\* _checkProposalStatus that passes a proposal on a majority of yes votes
checkProposalStatus_majority(p) ==
    IF p.noVotes > 0 THEN [p EXCEPT !.status = "Failed"]
    ELSE IF 2 * p.yesVotes > Len(p.quorumMembers)
         THEN [p EXCEPT !.status = "Passed"]
    ELSE p

\* _checkProposalStatus without the unanimity branch
checkProposalStatus_neverPasses(p) ==
    IF p.noVotes > 0 THEN [p EXCEPT !.status = "Failed"]
    ELSE p

\* _checkProposalStatus, as a function of the proposal record
checkProposalStatus(p) ==
    IF p.noVotes > 0 THEN [p EXCEPT !.status = "Failed"]
    ELSE IF p.yesVotes = Len(p.quorumMembers)
         THEN [p EXCEPT !.status = "Passed"]
    ELSE p

\* castVote that counts a yes vote in noVotes and a no vote in yesVotes
castVote_swappedCounters(sender, proposalId, vote) ==
    IF castVoteResult(sender, proposalId) = "ok"
    THEN /\ proposals' = [proposals EXCEPT ![proposalId] =
                checkProposalStatus(
                    [@ EXCEPT !.hasVoted[sender] = TRUE,
                              !.voteChoice[sender] = vote,
                              !.yesVotes = IF vote THEN @ ELSE @ + 1,
                              !.noVotes = IF vote THEN @ + 1 ELSE @])]
         /\ UNCHANGED <<now, admin, verifiedAgents, agentReputation,
                        bondingCurveFactory, proposalCount, factoryVars, market, db>>
    ELSE UNCHANGED vars

\* castVote that does not set the hasVoted flag
castVote_noFlag(sender, proposalId, vote) ==
    IF castVoteResult(sender, proposalId) = "ok"
    THEN /\ proposals' = [proposals EXCEPT ![proposalId] =
                checkProposalStatus(
                    [@ EXCEPT !.voteChoice[sender] = vote,
                              !.yesVotes = IF vote THEN @ + 1 ELSE @,
                              !.noVotes = IF vote THEN @ ELSE @ + 1])]
         /\ UNCHANGED <<now, admin, verifiedAgents, agentReputation,
                        bondingCurveFactory, proposalCount, factoryVars, market, db>>
    ELSE UNCHANGED vars

castVote(sender, proposalId, vote) ==
    IF castVoteResult(sender, proposalId) = "ok"
    THEN /\ proposals' = [proposals EXCEPT ![proposalId] =
                checkProposalStatus(
                    [@ EXCEPT !.hasVoted[sender] = TRUE,
                              !.voteChoice[sender] = vote,
                              !.yesVotes = IF vote THEN @ + 1 ELSE @,
                              !.noVotes = IF vote THEN @ ELSE @ + 1])]
         /\ UNCHANGED <<now, admin, verifiedAgents, agentReputation,
                        bondingCurveFactory, proposalCount, factoryVars, market, db>>
    ELSE UNCHANGED vars

\* ----------------------------------------------------------- finalizeProposal
\* finalizeProposalResult without the votingDeadline require
finalizeProposalResult_early(proposalId) ==
    IF proposalExists(proposalId) # "ok" THEN proposalExists(proposalId)
    ELSE IF proposals[proposalId].status # "Active" THEN "Proposal not active"
    ELSE "ok"

finalizeProposalResult(proposalId) ==
    IF proposalExists(proposalId) # "ok" THEN proposalExists(proposalId)
    ELSE IF proposals[proposalId].status # "Active" THEN "Proposal not active"
    ELSE IF ~(now > proposals[proposalId].votingDeadline)
         THEN "Voting period not ended"
    ELSE "ok"

\* finalizeProposal that clears the yes tally of the proposal it fails
finalizeProposal_reset(sender, proposalId) ==
    IF finalizeProposalResult(proposalId) = "ok"
    THEN /\ proposals' = [proposals EXCEPT ![proposalId] =
                IF @.yesVotes # Len(@.quorumMembers)
                THEN [@ EXCEPT !.status = "Failed", !.yesVotes = 0]
                ELSE @]
         /\ UNCHANGED <<now, admin, verifiedAgents, agentReputation,
                        bondingCurveFactory, proposalCount, factoryVars, market, db>>
    ELSE UNCHANGED vars

\* finalizeProposal that passes an expired proposal on a majority of yes votes
finalizeProposal_majority(sender, proposalId) ==
    IF finalizeProposalResult(proposalId) = "ok"
    THEN /\ proposals' = [proposals EXCEPT ![proposalId] =
                IF 2 * @.yesVotes > Len(@.quorumMembers)
                THEN [@ EXCEPT !.status = "Passed"]
                ELSE [@ EXCEPT !.status = "Failed"]]
         /\ UNCHANGED <<now, admin, verifiedAgents, agentReputation,
                        bondingCurveFactory, proposalCount, factoryVars, market, db>>
    ELSE UNCHANGED vars

finalizeProposal(sender, proposalId) ==
    IF finalizeProposalResult(proposalId) = "ok"
    THEN /\ proposals' = [proposals EXCEPT ![proposalId] =
                IF @.yesVotes # Len(@.quorumMembers)
                THEN [@ EXCEPT !.status = "Failed"]
                ELSE @]
         /\ UNCHANGED <<now, admin, verifiedAgents, agentReputation,
                        bondingCurveFactory, proposalCount, factoryVars, market, db>>
    ELSE UNCHANGED vars

\* ------------------------------------------------------------ executeProposal
\* executeProposalResult without the "Proposal not passed" require
executeProposalResult_anyStatus(sender, proposalId) ==
    IF sender # bondingCurveFactory THEN "Only factory" ELSE "ok"

\* executeProposalResult without the "Only factory" require
executeProposalResult_anySender(sender, proposalId) ==
    IF proposals[proposalId].status # "Passed" THEN "Proposal not passed"
    ELSE "ok"

\* executeProposalResult that accepts every deployed factory
executeProposalResult_anyFactory(sender, proposalId) ==
    IF sender \notin Factories THEN "Only factory"
    ELSE IF proposals[proposalId].status # "Passed" THEN "Proposal not passed"
    ELSE "ok"

executeProposalResult(sender, proposalId) ==
    IF sender # bondingCurveFactory THEN "Only factory"
    ELSE IF proposals[proposalId].status # "Passed" THEN "Proposal not passed"
    ELSE "ok"

\* increaseReputation whose loop stops one member early
RECURSIVE increaseReputation_skipLast(_, _, _)
increaseReputation_skipLast(rep, quorumMembers, i) ==
    IF i >= Len(quorumMembers) THEN rep
    ELSE increaseReputation_skipLast([rep EXCEPT ![quorumMembers[i]] = @ + 1],
                                     quorumMembers, i + 1)

\* the loop of lines 389-391 from index i on
RECURSIVE increaseReputation(_, _, _)
increaseReputation(rep, quorumMembers, i) ==
    IF i > Len(quorumMembers) THEN rep
    ELSE increaseReputation([rep EXCEPT ![quorumMembers[i]] = @ + 1],
                            quorumMembers, i + 1)

\* executeProposalWrites without the write of the status
executeProposalWrites_keepStatus(sender, proposalId) ==
    IF executeProposalResult(sender, proposalId) = "ok"
    THEN [ proposals |-> proposals,
           agentReputation |->
               increaseReputation(agentReputation,
                                  proposals[proposalId].quorumMembers, 1) ]
    ELSE [ proposals |-> proposals, agentReputation |-> agentReputation ]

\* the writes of executeProposal; none when the call reverts
executeProposalWrites(sender, proposalId) ==
    IF executeProposalResult(sender, proposalId) = "ok"
    THEN [ proposals |-> [proposals EXCEPT ![proposalId].status = "Executed"],
           agentReputation |->
               increaseReputation(agentReputation,
                                  proposals[proposalId].quorumMembers, 1) ]
    ELSE [ proposals |-> proposals, agentReputation |-> agentReputation ]

executeProposal(sender, proposalId) ==
    IF executeProposalResult(sender, proposalId) = "ok"
    THEN /\ proposals' = executeProposalWrites(sender, proposalId).proposals
         /\ agentReputation' =
                executeProposalWrites(sender, proposalId).agentReputation
         /\ UNCHANGED <<now, admin, verifiedAgents, bondingCurveFactory,
                        proposalCount, factoryVars, market, db>>
    ELSE UNCHANGED vars

\* ---------------------------------------------------------------- launchToken
\* getProposal reverts on an id that does not exist
getProposalResult(proposalId) == proposalExists(proposalId)

\* getProposal that reports an Active proposal as Failed once its deadline
\* has passed
getProposal_lazyExpiry(proposalId) ==
    [ proposer       |-> proposals[proposalId].proposer,
      quorumMembers  |-> proposals[proposalId].quorumMembers,
      yesVotes       |-> proposals[proposalId].yesVotes,
      noVotes        |-> proposals[proposalId].noVotes,
      votingDeadline |-> proposals[proposalId].votingDeadline,
      status         |-> IF /\ proposals[proposalId].status = "Active"
                            /\ now > proposals[proposalId].votingDeadline
                         THEN "Failed"
                         ELSE proposals[proposalId].status ]

\* what getProposal returns for an id that exists
getProposal(proposalId) ==
    [ proposer       |-> proposals[proposalId].proposer,
      quorumMembers  |-> proposals[proposalId].quorumMembers,
      yesVotes       |-> proposals[proposalId].yesVotes,
      noVotes        |-> proposals[proposalId].noVotes,
      votingDeadline |-> proposals[proposalId].votingDeadline,
      status         |-> proposals[proposalId].status ]

\* launchTokenResult that goes on when the inner executeProposal call reverts
launchTokenResult_swallow(f, proposalId) ==
    IF getProposalResult(proposalId) # "ok" THEN getProposalResult(proposalId)
    ELSE IF proposals[proposalId].status # "Passed" THEN "Proposal not passed"
    ELSE IF proposalToToken[f][proposalId] # ZeroAddress THEN "Already launched"
    ELSE "ok"

\* launchTokenResult that refuses a launch after the voting deadline
launchTokenResult_deadline(f, proposalId) ==
    IF getProposalResult(proposalId) # "ok" THEN getProposalResult(proposalId)
    ELSE IF proposals[proposalId].status # "Passed" THEN "Proposal not passed"
    ELSE IF ~(now <= proposals[proposalId].votingDeadline)
         THEN "Voting period ended"
    ELSE IF proposalToToken[f][proposalId] # ZeroAddress THEN "Already launched"
    ELSE executeProposalResult(f, proposalId)

\* the revert reason of launchToken run by factory f; the revert of the inner
\* executeProposal call (msg.sender = f) reverts the whole transaction
launchTokenResult(f, proposalId) ==
    IF getProposalResult(proposalId) # "ok" THEN getProposalResult(proposalId)
    ELSE IF proposals[proposalId].status # "Passed" THEN "Proposal not passed"
    ELSE IF proposalToToken[f][proposalId] # ZeroAddress THEN "Already launched"
    ELSE executeProposalResult(f, proposalId)

\* launchToken that keeps the token and its linkage when the inner
\* executeProposal call reverts
launchToken_partial(f, sender, proposalId) ==
    IF launchTokenResult_swallow(f, proposalId) = "ok"
    THEN LET token == TokenAddress(f, Len(allTokens[f]))
         IN  /\ tokens' = tokens \cup
                    {[ address |-> token,
                       factory |-> f,
                       proposalId |-> proposalId,
                       quorumMembers |-> proposals[proposalId].quorumMembers ]}
             /\ proposalToToken' =
                    [proposalToToken EXCEPT ![f][proposalId] = token]
             /\ allTokens' = [allTokens EXCEPT ![f] = Append(@, token)]
             /\ proposals' = executeProposalWrites(f, proposalId).proposals
             /\ agentReputation' =
                    executeProposalWrites(f, proposalId).agentReputation
             /\ UNCHANGED <<now, admin, verifiedAgents, bondingCurveFactory,
                            proposalCount, market, db>>
    ELSE UNCHANGED vars

launchToken(f, sender, proposalId) ==
    IF launchTokenResult(f, proposalId) = "ok"
    THEN LET token == TokenAddress(f, Len(allTokens[f]))
         IN  /\ tokens' = tokens \cup
                    {[ address |-> token,
                       factory |-> f,
                       proposalId |-> proposalId,
                       quorumMembers |-> proposals[proposalId].quorumMembers ]}
             /\ proposalToToken' =
                    [proposalToToken EXCEPT ![f][proposalId] = token]
             /\ allTokens' = [allTokens EXCEPT ![f] = Append(@, token)]
             /\ proposals' = executeProposalWrites(f, proposalId).proposals
             /\ agentReputation' =
                    executeProposalWrites(f, proposalId).agentReputation
             /\ UNCHANGED <<now, admin, verifiedAgents, bondingCurveFactory,
                            proposalCount, market, db>>
    ELSE UNCHANGED vars

\* ----------------------------------------------------------------------- time
\* the instants at which a require on block.timestamp changes its outcome
Instants ==
    UNION {{proposals[i].votingDeadline, proposals[i].votingDeadline + 1} :
           i \in {j \in PidArgs : j < proposalCount}}

\* a later block is mined
AdvanceTime(t) ==
    /\ t > now
    /\ now' = t
    /\ UNCHANGED <<quorumVars, factoryVars, market, db>>

\* ---------------------------------------------------------------------- Next
\* Spec: up to MaxProposals proposals, each over the same quorum of three
Next ==
    \/ \E s \in AdminArgs, f \in FactoryArgs : setBondingCurveFactory(s, f)
    \/ \E s \in AdminArgs, a \in VerifyArgs : verifyAgent(s, a)
    \/ \E s \in AdminArgs, a \in UnverifyArgs : unverifyAgent(s, a)
    \/ /\ proposalCount < MaxProposals
       /\ \E s \in ProposerArgs, l \in MemberListArgs : createProposal(s, l)
    \/ \E s \in VoterArgs, i \in PidArgs, v \in BOOLEAN : castVote(s, i, v)
    \/ \E s \in AnyoneArgs, i \in PidArgs : finalizeProposal(s, i)
    \/ \E s \in AdminArgs, i \in PidArgs : executeProposal(s, i)
    \/ \E f \in Factories, s \in AnyoneArgs, i \in PidArgs : launchToken(f, s, i)
    \/ \E t \in Instants : AdvanceTime(t)

Spec == Init /\ [][Next]_vars

\* SpecFair: Spec where blocks keep being mined and somebody calls
\* finalizeProposal on every proposal that accepts the call
SpecFair ==
    /\ Spec
    /\ WF_vars(\E t \in Instants : AdvanceTime(t))
    /\ \A i \in PidArgs :
          WF_vars(\E s \in AnyoneArgs : finalizeProposal(s, i))

\* SpecWide: up to MaxWideProposals proposals over quorums of three to five
NextWide ==
    \/ \E s \in AdminArgs, f \in FactoryArgs : setBondingCurveFactory(s, f)
    \/ \E s \in AdminArgs, a \in Agents : verifyAgent(s, a)
    \/ \E s \in AdminArgs, a \in UnverifyArgs : unverifyAgent(s, a)
    \/ /\ proposalCount < MaxWideProposals
       /\ \E s \in ProposerArgs, l \in WideMemberListArgs : createProposal(s, l)
    \/ \E s \in Accounts, i \in PidArgs, v \in BOOLEAN : castVote(s, i, v)
    \/ \E s \in AnyoneArgs, i \in PidArgs : finalizeProposal(s, i)
    \/ \E s \in AdminArgs, i \in PidArgs : executeProposal(s, i)
    \/ \E f \in Factories, s \in AnyoneArgs, i \in PidArgs : launchToken(f, s, i)
    \/ \E t \in Instants : AdvanceTime(t)

SpecWide == Init /\ [][NextWide]_vars

\* SpecIds: a ledger of up to MaxIdProposals proposals, for the id allocation
MaxIdProposals == 3

\* proposalId arguments of SpecIds
IdArgs == 0..MaxIdProposals

InitIds ==
    /\ now = 0
    /\ admin = Deployer
    /\ verifiedAgents = [a \in Accounts |-> FALSE]
    /\ agentReputation = [a \in Accounts |-> 0]
    /\ bondingCurveFactory = ZeroAddress
    /\ proposals = [i \in IdArgs |-> Proposal]
    /\ proposalCount = 0
    /\ proposalToToken = [f \in Factories |-> [i \in IdArgs |-> ZeroAddress]]
    /\ allTokens = [f \in Factories |-> << >>]
    /\ tokens = {}
    /\ market = Market(0)
    /\ db = Mirror

\* the deadlines of the proposals of SpecIds
IdInstants ==
    UNION {{proposals[i].votingDeadline, proposals[i].votingDeadline + 1} :
           i \in {j \in IdArgs : j < proposalCount}}

NextIds ==
    \/ \E s \in AdminArgs, a \in {"a1", "a2", "a3"} : verifyAgent(s, a)
    \/ /\ proposalCount < MaxIdProposals
       /\ \E s \in ProposerArgs, l \in MemberListArgs : createProposal(s, l)
    \/ \E i \in IdArgs, v \in BOOLEAN : castVote("a1", i, v)
    \/ \E s \in AnyoneArgs, i \in IdArgs : finalizeProposal(s, i)
    \/ \E t \in IdInstants : AdvanceTime(t)

SpecIds == InitIds /\ [][NextIds]_vars

\* SpecMarket: one market from its creation on, up to MaxTrades trades
MaxTrades == 4

\* msg.value of buy: nothing, too little for a token, the exact cost of two
\* tokens, and the two amounts that together pass the threshold
BuyArgs == {0, 1, 4, 5, 6}

\* tokenAmount of sell
SellArgs == {0, 1, 2}

\* callers of migrate: the orchestrator and a trader
MigrateArgs == {Orchestrator, "t1"}

InitMarket ==
    /\ now = 0
    /\ admin = Deployer
    /\ verifiedAgents = [a \in Accounts |-> FALSE]
    /\ agentReputation = [a \in Accounts |-> 0]
    /\ bondingCurveFactory = ZeroAddress
    /\ proposals = [i \in PidArgs |-> Proposal]
    /\ proposalCount = 0
    /\ proposalToToken = [f \in Factories |-> [i \in PidArgs |-> ZeroAddress]]
    /\ allTokens = [f \in Factories |-> << >>]
    /\ tokens = {}
    /\ market \in {Market(r) : r \in FeeRateArgs}
    /\ db = Mirror

NextMarket ==
    \/ /\ Len(market.trades) < MaxTrades
       /\ \E s \in Traders, x \in BuyArgs : buy(s, x)
    \/ /\ Len(market.trades) < MaxTrades
       /\ \E s \in Traders, n \in SellArgs : sell(s, n)
    \/ \E s \in MigrateArgs : migrate(s)

SpecMarket == InitMarket /\ [][NextMarket]_vars

\* SpecMirror: the statements an indexer runs on the mirror
NextMirror ==
    \/ \E q \in MirrorQuorums, a \in MirrorAgents, v \in BOOLEAN :
          insertQuorumMember(q, a, v)
    \/ \E q \in MirrorQuorums, a \in MirrorAgents, v \in BOOLEAN :
          updateQuorumMember(q, a, v)
    \/ \E id \in MarketIds, q \in MirrorQuorums, g \in BOOLEAN :
          insertMarket(id, q, g)
    \/ \E id \in MarketIds, g \in BOOLEAN : updateMarket(id, g)

SpecMirror == Init /\ [][NextMirror]_vars

\* ==================================================================== claims
\* ids of the proposals that were created
Created == {i \in PidArgs : i < proposalCount}

Members(i) == Range(proposals[i].quorumMembers)

\* every member of proposal i is recorded as having voted yes
AllYes(i) ==
    \A m \in Members(i) :
        proposals[i].hasVoted[m] /\ proposals[i].voteChoice[m]

\* the factories that hold a linkage for proposal i
LinkedIn(i) == {f \in Factories : proposalToToken[f][i] # ZeroAddress}

\* the token contracts created for proposal i
TokensOf(i) == {t \in tokens : t.proposalId = i}

StatusEdges ==
    { <<"Active", "Passed">>, <<"Active", "Failed">>, <<"Passed", "Executed">> }

\* C1: in every step, the status of every proposal either stays as it is or
\* moves along Active->Passed, Active->Failed or Passed->Executed; so Failed
\* and Executed are never left and no proposal returns to Active.
C1_StatusEdgesOnly ==
    [][\A i \in PidArgs :
          proposals'[i].status # proposals[i].status
              => <<proposals[i].status, proposals'[i].status>> \in StatusEdges]_vars

\* a proposal went all the way to Executed and its deadline has passed
C1_Witness ==
    \E i \in Created :
        proposals[i].status = "Executed" /\ now > proposals[i].votingDeadline

\* C2: a created proposal is Passed (or, later, Executed) exactly when every
\* member is recorded as having voted yes, and the step that makes it Passed is
\* a castVote(yes) of a member who had not voted, taken not after the deadline.
C2_PassedIffUnanimous ==
    /\ [](\A i \in Created :
             proposals[i].status \in {"Passed", "Executed"} <=> AllYes(i))
    /\ [][\A i \in PidArgs :
             (proposals[i].status # "Passed" /\ proposals'[i].status = "Passed")
                 => /\ now <= proposals[i].votingDeadline
                    /\ proposals'[i].yesVotes = Len(proposals[i].quorumMembers)
                    /\ \E s \in Members(i) :
                           /\ ~proposals[i].hasVoted[s]
                           /\ castVote(s, i, TRUE)]_vars

\* a quorum of five has passed
C2_Witness ==
    \E i \in Created :
        /\ Len(proposals[i].quorumMembers) = MAX_QUORUM_SIZE
        /\ proposals[i].status = "Passed"
        /\ AllYes(i)

\* C3: in every state, the one reached by the castVote that records a no
\* included, a proposal with a recorded no vote is Failed, whatever the yes
\* votes recorded before it and however many members have not voted; so the
\* first no vote is also the only one.
C3_NoVoteFailsAtOnce ==
    \A i \in PidArgs :
        LET voted(c) == {m \in Members(i) : /\ proposals[i].hasVoted[m]
                                             /\ proposals[i].voteChoice[m] = c}
        IN  (proposals[i].noVotes > 0 \/ voted(FALSE) # {})
                => /\ proposals[i].status = "Failed"
                   /\ proposals[i].noVotes = 1
                   /\ Cardinality(voted(FALSE)) = 1

\* [P, M1, M2]: one yes, one no, the proposer never voted, and it is Failed
C3_Witness ==
    \E i \in Created :
        /\ proposals[i].status = "Failed"
        /\ proposals[i].noVotes = 1
        /\ proposals[i].yesVotes = 1
        /\ ~proposals[i].hasVoted[proposals[i].proposer]
        /\ Len(proposals[i].quorumMembers) = MIN_QUORUM_SIZE

\* C4: every linkage and every token contract belongs to a created proposal
\* whose yesVotes equal its member count and whose noVotes are 0, and the
\* factories' records change only in a launchToken on a Passed proposal.
C4_LaunchOnlyPassed ==
    /\ [](\A i \in PidArgs :
             (LinkedIn(i) # {} \/ TokensOf(i) # {})
                 => /\ i \in Created
                    /\ proposals[i].yesVotes = Len(proposals[i].quorumMembers)
                    /\ proposals[i].noVotes = 0)
    /\ [][factoryVars' # factoryVars
             => \E f \in Factories, s \in Accounts, i \in Created :
                    proposals[i].status = "Passed" /\ launchToken(f, s, i)]_vars

\* a proposal with three yes votes has its linkage and its token contract
C4_Witness ==
    \E i \in Created :
        /\ LinkedIn(i) # {} /\ TokensOf(i) # {}
        /\ proposals[i].yesVotes = MIN_QUORUM_SIZE

\* C5: no linkage, token contract or allTokens entry exists for a proposal
\* that is not Executed, and a launchToken whose inner executeProposal reverts
\* leaves the factories' records as they were.
C5_LaunchAtomic ==
    /\ [](\A i \in PidArgs :
             (LinkedIn(i) # {} \/ TokensOf(i) # {})
                 => proposals[i].status = "Executed")
    /\ [](\A f \in Factories :
             Range(allTokens[f]) = {proposalToToken[f][i] : i \in Created}
                                       \ {ZeroAddress})
    /\ [][factoryVars' # factoryVars
             => ~\E f \in Factories, s \in Accounts, i \in PidArgs :
                    executeProposalResult(f, i) # "ok" /\ launchToken(f, s, i)]_vars

\* a factory holds the linkage, the token and the allTokens entry of an
\* Executed proposal
C5_Witness ==
    \E i \in Created, f \in Factories :
        /\ proposals[i].status = "Executed"
        /\ proposalToToken[f][i] # ZeroAddress
        /\ allTokens[f] = <<proposalToToken[f][i]>>
        /\ \E t \in tokens : t.address = proposalToToken[f][i]

\* C6: every Executed proposal has a market recorded in a proposalId->market
\* linkage.
C6_ExecutedHasMarket ==
    \A i \in Created :
        proposals[i].status = "Executed" => LinkedIn(i) # {}

\* C7: at most one token contract is ever created for a proposal id, a
\* linkage that is set never changes, and the reputation counters change only
\* in a step that takes one proposal from Passed to Executed, by one for each
\* of its members.
C7_NoDoubleExecution ==
    /\ [](\A i \in PidArgs :
             Cardinality(TokensOf(i)) <= 1 /\ Cardinality(LinkedIn(i)) <= 1)
    /\ [][\A f \in Factories, i \in PidArgs :
             proposalToToken[f][i] # ZeroAddress
                 => proposalToToken'[f][i] = proposalToToken[f][i]]_vars
    /\ [][agentReputation' # agentReputation
             => \E i \in Created :
                    /\ proposals[i].status = "Passed"
                    /\ proposals'[i].status = "Executed"
                    /\ \A a \in Accounts :
                           agentReputation'[a] = agentReputation[a] +
                               (IF a \in Members(i) THEN 1 ELSE 0)]_vars

\* a proposal was launched by one factory and the other factory is the
\* registered one now
C7_Witness ==
    \E i \in Created, f \in Factories :
        /\ proposalToToken[f][i] # ZeroAddress
        /\ bondingCurveFactory \in Factories \ {f}
        /\ \A m \in Members(i) : agentReputation[m] = 1

\* C8: launchToken on a proposal id for which a token was created reverts
\* with "Already launched".
C8_AlreadyLaunched ==
    \A f \in Factories, i \in PidArgs :
        TokensOf(i) # {} => launchTokenResult(f, i) = "Already launched"

\* C9: executeProposal by a sender that is not bondingCurveFactory reverts
\* with "Only factory"; by bondingCurveFactory on a proposal that is not Passed
\* it reverts with "Proposal not passed"; a reverting call changes no status
\* and no reputation counter; and a proposal becomes Executed only from Passed,
\* in an executeProposal sent by the registered address or a launchToken of the
\* registered factory.
C9_ExecuteGuards ==
    /\ [](\A s \in Accounts \cup Factories, i \in PidArgs :
             /\ s # bondingCurveFactory
                    => executeProposalResult(s, i) = "Only factory"
             /\ (s = bondingCurveFactory /\ proposals[i].status # "Passed")
                    => executeProposalResult(s, i) = "Proposal not passed")
    /\ [][(proposals' # proposals \/ agentReputation' # agentReputation)
             => ~\E s \in Accounts, i \in PidArgs :
                    /\ s # bondingCurveFactory \/ proposals[i].status # "Passed"
                    /\ executeProposal(s, i)]_vars
    /\ [][\A i \in PidArgs :
             (proposals[i].status # "Executed" /\ proposals'[i].status = "Executed")
                 => /\ proposals[i].status = "Passed"
                    /\ \/ \E s \in Accounts :
                              s = bondingCurveFactory /\ executeProposal(s, i)
                       \/ \E f \in Factories, s \in Accounts :
                              f = bondingCurveFactory /\ launchToken(f, s, i)]_vars

\* a Passed proposal on which the registered address may call and another
\* account may not
C9_Witness ==
    \E i \in Created :
        /\ proposals[i].status = "Passed"
        /\ bondingCurveFactory = Deployer
        /\ executeProposalResult("a1", i) = "Only factory"
        /\ executeProposalResult(Deployer, i) = "ok"

\* C10: the reputation counter of every account is the number of Executed
\* proposals that list it as a member, and the counters change only in an
\* executeProposal or a launchToken.
C10_ReputationCountsExecutions ==
    /\ [](\A a \in Accounts :
             agentReputation[a] =
                 Cardinality({i \in Created :
                                 /\ proposals[i].status = "Executed"
                                 /\ a \in Members(i)}))
    /\ [][agentReputation' # agentReputation
             => \/ \E s \in Accounts, i \in PidArgs : executeProposal(s, i)
                \/ \E f \in Factories, s \in Accounts, i \in PidArgs :
                       launchToken(f, s, i)]_vars

\* the members of an executed proposal beside a verified agent who is none
C10_Witness ==
    \E i \in Created :
        /\ proposals[i].status = "Executed"
        /\ \A m \in Members(i) : agentReputation[m] = 1
        /\ \E a \in Agents \ Members(i) :
               verifiedAgents[a] /\ agentReputation[a] = 0

\* C11: finalizeProposal is accepted on every Active proposal whose deadline
\* has passed; when it is, a proposal with fewer yes votes than members is
\* Failed afterwards, and no finalizeProposal leaves a proposal Passed.
C11_FinalizeExpiredFails ==
    /\ [](\A i \in Created :
             (proposals[i].status = "Active" /\ now > proposals[i].votingDeadline)
                 => finalizeProposalResult(i) = "ok")
    /\ [][\A i \in PidArgs :
             ( /\ finalizeProposalResult(i) = "ok"
               /\ \E s \in Accounts : finalizeProposal(s, i) )
                 => /\ proposals'[i].status # "Passed"
                    /\ proposals[i].yesVotes < Len(proposals[i].quorumMembers)
                           => proposals'[i].status = "Failed"]_vars

\* two of three voted yes, nobody voted no, and the proposal expired to Failed
C11_Witness ==
    \E i \in Created :
        /\ proposals[i].status = "Failed"
        /\ Len(proposals[i].quorumMembers) = 3
        /\ proposals[i].yesVotes = 2
        /\ proposals[i].noVotes = 0
        /\ now > proposals[i].votingDeadline

\* C12: votingDeadline is createdAt + VOTING_PERIOD, no proposal becomes
\* Passed at a time later than its votingDeadline, every vote on an Active
\* proposal past its deadline is refused with "Voting period ended", and
\* the only status such a proposal can change to is Failed.
C12_DeadlineClosesVoting ==
    /\ [](\A i \in Created :
             /\ proposals[i].votingDeadline = proposals[i].createdAt + VOTING_PERIOD
             /\ (proposals[i].status = "Active" /\ now > proposals[i].votingDeadline)
                    => \A s \in Accounts : castVoteResult(s, i) = "Voting period ended")
    /\ [][\A i \in PidArgs :
             proposals'[i].status # proposals[i].status
                 => /\ proposals'[i].status = "Passed"
                           => now <= proposals[i].votingDeadline
                    /\ (proposals[i].status = "Active"
                            /\ now > proposals[i].votingDeadline)
                           => proposals'[i].status = "Failed"]_vars

\* one yes vote short of unanimity when the deadline has passed
C12_Witness ==
    \E i \in Created :
        /\ proposals[i].status = "Active"
        /\ now > proposals[i].votingDeadline
        /\ proposals[i].noVotes = 0
        /\ proposals[i].yesVotes = Len(proposals[i].quorumMembers) - 1
        /\ \E s \in Members(i) : ~proposals[i].hasVoted[s]

\* C13: castVote by an account outside the proposal's quorumMembers is never
\* accepted (the refusal is "Not a quorum member" while the proposal is
\* Active and within its deadline) and changes nothing; such an account has
\* no vote record, and vote records and tallies change only in a castVote
\* of a quorum member.
C13_OnlyMembersVote ==
    /\ [](\A i \in PidArgs : \A s \in Accounts \ Members(i) :
             /\ castVoteResult(s, i) # "ok"
             /\ ~proposals[i].hasVoted[s]
             /\ (i \in Created /\ proposalActive(i) = "ok")
                    => castVoteResult(s, i) = "Not a quorum member")
    /\ [][\A i \in PidArgs :
             /\ ( \/ proposals'[i].hasVoted # proposals[i].hasVoted
                  \/ proposals'[i].voteChoice # proposals[i].voteChoice
                  \/ proposals'[i].yesVotes # proposals[i].yesVotes
                  \/ proposals'[i].noVotes # proposals[i].noVotes )
                    => \E s \in Members(i) : \E v \in BOOLEAN : castVote(s, i, v)
             /\ vars' # vars
                    => ~ \E s \in Accounts \ Members(i) : \E v \in BOOLEAN :
                             castVote(s, i, v)]_vars

\* a verified agent outside the quorum is refused on an open proposal that
\* already holds a member's vote
C13_Witness ==
    \E i \in Created :
        /\ proposalActive(i) = "ok"
        /\ proposals[i].yesVotes = 1
        /\ verifiedAgents["a4"]
        /\ "a4" \notin Members(i)
        /\ castVoteResult("a4", i) = "Not a quorum member"

\* C14 as stated: castVote by a member who has already voted is refused
\* with "Already voted".
C14_SecondVoteAlreadyVoted ==
    \A i \in Created : \A s \in Members(i) :
        proposals[i].hasVoted[s] => castVoteResult(s, i) = "Already voted"

\* C14: castVote by a member who has already voted is never accepted, and
\* is refused with "Already voted" while the proposal is Active and within
\* its deadline (the proposalActive refusals come first otherwise); a
\* recorded hasVoted flag and choice never change, and each step adds to
\* yesVotes + noVotes exactly the number of members newly recorded, at most
\* one.
C14_VoteOnce ==
    /\ [](\A i \in Created : \A s \in Members(i) :
             proposals[i].hasVoted[s]
                 => /\ castVoteResult(s, i) # "ok"
                    /\ proposalActive(i) = "ok"
                           => castVoteResult(s, i) = "Already voted")
    /\ [][proposals' # proposals =>
            \A i \in PidArgs :
               /\ \A s \in Accounts :
                     proposals[i].hasVoted[s]
                         => /\ proposals'[i].hasVoted[s]
                            /\ proposals'[i].voteChoice[s] = proposals[i].voteChoice[s]
               /\ (proposals'[i].yesVotes + proposals'[i].noVotes)
                      - (proposals[i].yesVotes + proposals[i].noVotes)
                    = Cardinality({s \in Accounts : /\ proposals'[i].hasVoted[s]
                                                    /\ ~proposals[i].hasVoted[s]})
               /\ Cardinality({s \in Accounts : /\ proposals'[i].hasVoted[s]
                                                /\ ~proposals[i].hasVoted[s]}) <= 1]_vars

\* a member who voted yes is refused with "Already voted" on an open proposal
C14_Witness ==
    \E i \in Created : \E s \in Members(i) :
        /\ proposals[i].hasVoted[s]
        /\ proposals[i].voteChoice[s]
        /\ proposals[i].yesVotes = 1
        /\ castVoteResult(s, i) = "Already voted"

\* C15: castVote is accepted only on an Active proposal at a time
\* now <= votingDeadline; on a Passed, Failed or Executed proposal every
\* caller is refused with "Proposal not active", on an Active proposal past
\* its deadline with "Voting period ended", and vote records and tallies
\* change only while the proposal is Active and within its deadline.
C15_VotingWindow ==
    /\ [](\A i \in Created : \A s \in Accounts :
             /\ castVoteResult(s, i) = "ok"
                    => /\ proposals[i].status = "Active"
                       /\ now <= proposals[i].votingDeadline
             /\ proposals[i].status \in {"Passed", "Failed", "Executed"}
                    => castVoteResult(s, i) = "Proposal not active"
             /\ (proposals[i].status = "Active" /\ now > proposals[i].votingDeadline)
                    => castVoteResult(s, i) = "Voting period ended")
    /\ [][\A i \in PidArgs :
             ( \/ proposals'[i].hasVoted # proposals[i].hasVoted
               \/ proposals'[i].voteChoice # proposals[i].voteChoice
               \/ proposals'[i].yesVotes # proposals[i].yesVotes
               \/ proposals'[i].noVotes # proposals[i].noVotes )
                 => /\ proposals[i].status = "Active"
                    /\ now <= proposals[i].votingDeadline]_vars

\* a proposal failed by a no vote, still before its deadline, refuses a
\* member who has not voted
C15_Witness ==
    \E i \in Created : \E s \in Members(i) :
        /\ proposals[i].status = "Failed"
        /\ proposals[i].noVotes = 1
        /\ now <= proposals[i].votingDeadline
        /\ ~proposals[i].hasVoted[s]
        /\ castVoteResult(s, i) = "Proposal not active"

\* C16: finalizeProposal is accepted, whoever calls, exactly when the
\* proposal is Active and now > votingDeadline; it is refused with "Voting
\* period not ended" on an Active proposal at now <= votingDeadline and with
\* "Proposal not active" on a Passed, Failed or Executed one, and a refused
\* call changes nothing; no state accepts both a castVote and a
\* finalizeProposal on the same proposal, and an Active proposal without a
\* no vote becomes Failed only after its deadline.
C16_FinalizeWindow ==
    /\ [](\A i \in Created :
             /\ finalizeProposalResult(i) = "ok"
                    <=> (proposals[i].status = "Active"
                            /\ now > proposals[i].votingDeadline)
             /\ (proposals[i].status = "Active" /\ now <= proposals[i].votingDeadline)
                    => finalizeProposalResult(i) = "Voting period not ended"
             /\ proposals[i].status \in {"Passed", "Failed", "Executed"}
                    => finalizeProposalResult(i) = "Proposal not active"
             /\ \A s \in Accounts :
                    ~(castVoteResult(s, i) = "ok" /\ finalizeProposalResult(i) = "ok"))
    /\ [][vars' # vars =>
            \A i \in PidArgs :
               /\ finalizeProposalResult(i) # "ok"
                      => ~ \E s \in Accounts : finalizeProposal(s, i)
               /\ ( /\ proposals[i].status = "Active"
                    /\ proposals'[i].status = "Failed"
                    /\ proposals'[i].noVotes = 0 )
                      => now > proposals[i].votingDeadline]_vars

\* at the deadline itself an Active proposal still takes votes and refuses
\* to be finalized
C16_Witness ==
    \E i \in Created : \E s \in Members(i) :
        /\ proposals[i].status = "Active"
        /\ now = proposals[i].votingDeadline
        /\ proposals[i].yesVotes = 1
        /\ castVoteResult(s, i) = "ok"
        /\ finalizeProposalResult(i) = "Voting period not ended"

\* C17: in every reachable state and for every proposal, yesVotes + noVotes
\* is at most the number of quorum members, yesVotes is the number of
\* members recorded as having voted yes, and noVotes the number recorded as
\* having voted no.
C17_TalliesMatchRecords ==
    \A i \in PidArgs :
        /\ proposals[i].yesVotes + proposals[i].noVotes
               <= Len(proposals[i].quorumMembers)
        /\ proposals[i].yesVotes
               = Cardinality({s \in Members(i) : /\ proposals[i].hasVoted[s]
                                                 /\ proposals[i].voteChoice[s]})
        /\ proposals[i].noVotes
               = Cardinality({s \in Members(i) : /\ proposals[i].hasVoted[s]
                                                 /\ ~proposals[i].voteChoice[s]})

\* two yes votes and then a no vote in a quorum of five
C17_Witness ==
    \E i \in Created :
        /\ Len(proposals[i].quorumMembers) = 5
        /\ proposals[i].yesVotes = 2
        /\ proposals[i].noVotes = 1

\* C18: a recorded hasVoted flag and choice are the same after every step,
\* yesVotes and noVotes never decrease, and a step that finalizes an expired
\* proposal or marks a proposal Executed changes nothing of the proposals
\* but that proposal's status.
C18_VotesNeverErased ==
    [][proposals' # proposals =>
         \A i \in PidArgs :
            /\ \A s \in Accounts :
                  proposals[i].hasVoted[s]
                      => /\ proposals'[i].hasVoted[s]
                         /\ proposals'[i].voteChoice[s] = proposals[i].voteChoice[s]
            /\ proposals'[i].yesVotes >= proposals[i].yesVotes
            /\ proposals'[i].noVotes >= proposals[i].noVotes
            /\ ( \/ \E s \in Accounts : finalizeProposal(s, i)
                 \/ \E s \in Accounts \cup FactoryArgs : executeProposal(s, i)
                 \/ proposals'[i].status = "Executed" /\ proposals[i].status # "Executed"
                 \/ /\ proposals[i].status = "Active"
                    /\ now > proposals[i].votingDeadline
                    /\ proposals'[i].status # "Active" )
                  => proposals' = [proposals EXCEPT
                                      ![i].status = proposals'[i].status]]_vars

\* a proposal failed by expiry still holds the one yes vote cast on it
C18_Witness ==
    \E i \in Created : \E s \in Members(i) :
        /\ proposals[i].status = "Failed"
        /\ now > proposals[i].votingDeadline
        /\ proposals[i].noVotes = 0
        /\ proposals[i].yesVotes = 1
        /\ proposals[i].hasVoted[s]
        /\ proposals[i].voteChoice[s]

\* the conditions of a valid createProposal, stated on the current state
ValidCreate(s, l) ==
    /\ verifiedAgents[s]
    /\ Len(l) >= 3 /\ Len(l) <= 5
    /\ \A j, k \in 1..Len(l) : j # k => l[j] # l[k]
    /\ \A j \in 1..Len(l) : verifiedAgents[l[j]]
    /\ \E j \in 1..Len(l) : l[j] = s

\* C19: createProposal is accepted exactly when the caller is verified, the
\* member list has three to five entries, pairwise distinct, all verified,
\* and the caller among them; a refusal carries the reason of a condition
\* that fails and changes nothing. The call that is accepted raises
\* proposalCount by one and leaves at the old count an Active proposal of
\* that caller and those members with no vote, createdAt = now and
\* votingDeadline = now + VOTING_PERIOD; every created proposal keeps three
\* to five distinct members with its proposer among them.
C19_CreatedProposalsValid ==
    /\ [](\A s \in ProposerArgs : \A l \in MemberListArgs \cup WideMemberListArgs :
             LET r == createProposalResult(s, l)
             IN  /\ r = "ok" <=> ValidCreate(s, l)
                 /\ r = "Not verified agent" => ~verifiedAgents[s]
                 /\ r = "Quorum too small" => Len(l) < 3
                 /\ r = "Quorum too large" => Len(l) > 5
                 /\ r = "Invalid quorum member"
                        => \E j \in 1..Len(l) : ~verifiedAgents[l[j]]
                 /\ r = "Duplicate quorum member"
                        => \E j, k \in 1..Len(l) : j # k /\ l[j] = l[k]
                 /\ r = "Proposer must be in quorum" => s \notin Range(l)
                 /\ r \in {"ok", "Not verified agent", "Quorum too small",
                           "Quorum too large", "Invalid quorum member",
                           "Duplicate quorum member", "Proposer must be in quorum"})
    /\ [](\A i \in Created :
             LET p == proposals[i]
             IN  /\ Len(p.quorumMembers) >= 3 /\ Len(p.quorumMembers) <= 5
                 /\ Cardinality(Range(p.quorumMembers)) = Len(p.quorumMembers)
                 /\ p.proposer \in Range(p.quorumMembers)
                 /\ p.votingDeadline = p.createdAt + 7)
    /\ [][vars' # vars =>
            /\ \A s \in ProposerArgs : \A l \in WideMemberListArgs :
                  createProposalResult(s, l) # "ok" => ~createProposal(s, l)
            /\ proposalCount' # proposalCount =>
                  LET p == proposals'[proposalCount]
                  IN  /\ proposalCount' = proposalCount + 1
                      /\ ValidCreate(p.proposer, p.quorumMembers)
                      /\ p.status = "Active"
                      /\ p.yesVotes = 0 /\ p.noVotes = 0
                      /\ \A a \in Accounts : ~p.hasVoted[a]
                      /\ p.createdAt = now
                      /\ p.votingDeadline = now + 7]_vars

\* a fresh proposal over a quorum of five
C19_Witness ==
    \E i \in Created :
        /\ Len(proposals[i].quorumMembers) = 5
        /\ proposals[i].proposer = "a1"
        /\ proposals[i].status = "Active"
        /\ proposals[i].yesVotes = 0
        /\ proposals[i].noVotes = 0
        /\ proposals[i].createdAt = now

\* C20: the proposals created are exactly those with an id below
\* proposalCount, each stored under its own id, in the order of their
\* creation times; proposalCount never decreases and changes only by one,
\* in an accepted createProposal that writes the proposal with id
\* proposalCount and leaves the identity of every earlier proposal alone; a
\* refused createProposal changes nothing.
C20_IdsMonotonic ==
    /\ [](/\ \A i \in IdArgs :
                /\ proposalExists(i) = "ok" <=> i < proposalCount
                /\ i < proposalCount
                       => /\ proposals[i].proposalId = i
                          /\ proposals[i].proposer # ZeroAddress
                /\ i >= proposalCount => proposals[i] = Proposal
          /\ proposalCount
                = Cardinality({i \in IdArgs : proposals[i].proposer # ZeroAddress})
          /\ \A i, j \in IdArgs :
                (i < j /\ j < proposalCount)
                    => proposals[i].createdAt <= proposals[j].createdAt)
    /\ [][vars' # vars =>
            /\ proposalCount' >= proposalCount
            /\ \A s \in ProposerArgs : \A l \in MemberListArgs :
                  createProposalResult(s, l) # "ok" => ~createProposal(s, l)
            /\ \A i \in IdArgs :
                  i < proposalCount
                      => /\ proposals'[i].proposalId = proposals[i].proposalId
                         /\ proposals'[i].proposer = proposals[i].proposer
                         /\ proposals'[i].quorumMembers = proposals[i].quorumMembers
                         /\ proposals'[i].createdAt = proposals[i].createdAt
            /\ proposalCount' # proposalCount
                  => /\ proposalCount' = proposalCount + 1
                     /\ proposals'[proposalCount].proposalId = proposalCount
                     /\ \E s \in ProposerArgs : \E l \in MemberListArgs :
                           /\ createProposalResult(s, l) = "ok"
                           /\ createProposal(s, l)]_vars

\* three proposals with ids 0, 1, 2, the first one closed before the third
\* was created
C20_Witness ==
    /\ proposalCount = 3
    /\ proposals[0].status = "Failed"
    /\ proposals[2].proposalId = 2
    /\ proposals[2].status = "Active"
    /\ proposals[2].createdAt > proposals[0].votingDeadline

\* C21: the admin is the deployer in every state; verifyAgent and
\* unverifyAgent called by any other account are refused with "Only admin";
\* and a step that changes a verified flag is a verifyAgent or an
\* unverifyAgent of the admin and changes that one flag only.
C21_OnlyAdminVerifies ==
    /\ [](/\ admin = Deployer
          /\ \A s \in Accounts \ {Deployer} : \A a \in Accounts :
                /\ verifyAgentResult(s, a) = "Only admin"
                /\ unverifyAgentResult(s, a) = "Only admin")
    /\ [][verifiedAgents' # verifiedAgents =>
            \E a \in Accounts :
               /\ verifyAgent(Deployer, a) \/ unverifyAgent(Deployer, a)
               /\ \A b \in Accounts \ {a} :
                     verifiedAgents'[b] = verifiedAgents[b]]_vars

\* the admin has verified agents, a proposal went through to Executed, and
\* an agent that is not the admin is still refused
C21_Witness ==
    /\ admin = Deployer
    /\ verifiedAgents["a1"] /\ verifiedAgents["a2"]
    /\ \E i \in Created : proposals[i].status = "Executed"
    /\ verifyAgentResult("a1", "a4") = "Only admin"
    /\ unverifyAgentResult("a1", "a2") = "Only admin"

\* C22: verifyAgent of a verified agent is refused for every caller, with
\* "Agent already verified" when the caller is the admin, and unverifyAgent
\* of an agent that is not verified is refused for every caller, with "Agent
\* not verified" for the admin; the admin's other call on the agent is
\* accepted; and a verified flag changes only from false to true in a
\* verifyAgent and from true to false in an unverifyAgent of that agent.
C22_VerifyAlternates ==
    /\ [](\A a \in Accounts :
             /\ verifiedAgents[a]
                    => /\ \A s \in Accounts : verifyAgentResult(s, a) # "ok"
                       /\ verifyAgentResult(admin, a) = "Agent already verified"
                       /\ unverifyAgentResult(admin, a) = "ok"
             /\ ~verifiedAgents[a]
                    => /\ \A s \in Accounts : unverifyAgentResult(s, a) # "ok"
                       /\ unverifyAgentResult(admin, a) = "Agent not verified"
                       /\ verifyAgentResult(admin, a) = "ok")
    /\ [][verifiedAgents' # verifiedAgents =>
            \A a \in Accounts :
               /\ (~verifiedAgents[a] /\ verifiedAgents'[a])
                      => verifyAgent(admin, a)
               /\ (verifiedAgents[a] /\ ~verifiedAgents'[a])
                      => unverifyAgent(admin, a)]_vars

\* a member that was verified when the proposal was created is no longer
\* verified, while another one still is
C22_Witness ==
    \E i \in Created :
        /\ "a3" \in Members(i)
        /\ ~verifiedAgents["a3"]
        /\ verifiedAgents["a1"]
        /\ unverifyAgentResult(admin, "a3") = "Agent not verified"
        /\ verifyAgentResult(admin, "a1") = "Agent already verified"

\* C23: a call that is refused changes nothing: no step that changes the
\* state is a createProposal, castVote, finalizeProposal, executeProposal,
\* launchToken, verifyAgent or unverifyAgent whose result is a revert reason.
C23_RejectedChangesNothing ==
    [][vars' # vars =>
         /\ \A s \in Accounts : \A a \in Accounts :
               /\ verifyAgentResult(s, a) # "ok" => ~verifyAgent(s, a)
               /\ unverifyAgentResult(s, a) # "ok" => ~unverifyAgent(s, a)
         /\ \A s \in ProposerArgs : \A l \in MemberListArgs :
               createProposalResult(s, l) # "ok" => ~createProposal(s, l)
         /\ \A i \in PidArgs :
               /\ \A s \in Accounts : \A v \in BOOLEAN :
                     castVoteResult(s, i) # "ok" => ~castVote(s, i, v)
               /\ finalizeProposalResult(i) # "ok"
                     => ~ \E s \in Accounts : finalizeProposal(s, i)
               /\ \A s \in Accounts \cup FactoryArgs :
                     executeProposalResult(s, i) # "ok" => ~executeProposal(s, i)
               /\ \A f \in Factories :
                     launchTokenResult(f, i) # "ok"
                         => ~ \E s \in Accounts : launchToken(f, s, i)]_vars

\* a Passed proposal that a factory the quorum contract does not know tries
\* to launch: the call reverts in executeProposal and no token remains
C23_Witness ==
    \E i \in Created : \E f \in Factories :
        /\ proposals[i].status = "Passed"
        /\ bondingCurveFactory \in Factories \ {f}
        /\ launchTokenResult(f, i) = "Only factory"
        /\ tokens = {}
        /\ allTokens[f] = << >>

\* C24: in every state of the market graduated is true exactly when
\* ethRaised >= graduationThreshold; an accepted buy that brings ethRaised
\* to the threshold or past it leaves graduated set in the same step, and a
\* graduated market refuses every buy with "MarketClosed".
C24_GraduatedIffThreshold ==
    /\ [](/\ market.graduated <=> market.ethRaised >= market.graduationThreshold
          /\ market.graduated
                => \A s \in Traders : \A x \in BuyArgs :
                      buyResult(s, x) = "MarketClosed")
    /\ [][market' # market =>
            \A s \in Traders : \A x \in BuyArgs :
               ( /\ buyResult(s, x) = "ok"
                 /\ market.ethRaised + x >= market.graduationThreshold
                 /\ buy(s, x) )
                   => /\ ~market.graduated
                      /\ market'.graduated
                      /\ market'.ethRaised = market.ethRaised + x]_vars

\* a buy of 6 and then a buy of 5 against a threshold of 10: the second one
\* graduated the market and a third is refused
C24_Witness ==
    /\ market.graduationThreshold = 10
    /\ Len(market.trades) = 2
    /\ market.trades[1].isBuy /\ market.trades[1].ethAmount = 6
    /\ market.trades[2].isBuy /\ market.trades[2].ethAmount = 5
    /\ market.ethRaised = 11
    /\ market.graduated
    /\ buyResult("t1", 5) = "MarketClosed"

\* C25: once graduated is true it stays true; a graduated market refuses
\* every buy and every sell with "MarketClosed", and no later step changes
\* its currentSupply, ethRaised, balances or trade log; its fee ledgers
\* change in no buy and no sell.
C25_GraduatedLatch ==
    /\ [](market.graduated =>
             /\ \A s \in Traders : \A x \in BuyArgs :
                   buyResult(s, x) = "MarketClosed"
             /\ \A s \in Traders : \A n \in SellArgs :
                   sellResult(s, n) = "MarketClosed")
    /\ [][(market.graduated /\ market' # market) =>
            /\ market'.graduated
            /\ market'.currentSupply = market.currentSupply
            /\ market'.ethRaised = market.ethRaised
            /\ market'.balances = market.balances
            /\ market'.trades = market.trades
            /\ ~ \E s \in Traders :
                    \/ \E x \in BuyArgs : buy(s, x)
                    \/ \E n \in SellArgs : sell(s, n)]_vars

\* a graduated market with room left in the trade log refuses the sell of a
\* holder and the buy of another trader
C25_Witness ==
    /\ market.graduated
    /\ Len(market.trades) < MaxTrades
    /\ market.balances["t1"] >= 1
    /\ sellResult("t1", 1) = "MarketClosed"
    /\ buyResult("t2", 4) = "MarketClosed"

\* C26: migrate by the orchestrator on a migrated market is accepted and
\* changes nothing; the venue's liquidity changes only in the one step that
\* sets migrated, on a graduated market, by the whole liquidity ledger,
\* which it empties; and a market that has not graduated accepts no migrate
\* and has moved nothing.
C26_MigrateIdempotent ==
    /\ [](/\ market.migrated
                => /\ market.graduated
                   /\ migrateResult(Orchestrator) = "ok"
                   /\ market.liquidityFees = 0
          /\ ~market.graduated
                => /\ ~market.migrated
                   /\ market.venueLiquidity = 0
                   /\ \A s \in MigrateArgs : migrateResult(s) # "ok")
    /\ [][market' # market =>
            /\ market.migrated => ~ \E s \in MigrateArgs : migrate(s)
            /\ market'.venueLiquidity # market.venueLiquidity
                  => /\ market.graduated
                     /\ ~market.migrated
                     /\ market'.migrated
                     /\ market'.venueLiquidity
                            = market.venueLiquidity + market.liquidityFees
                     /\ market'.liquidityFees = 0
                     /\ migrate(Orchestrator)]_vars

\* the liquidity share of a buy of 6 and a buy of 5 is at the venue
C26_Witness ==
    /\ market.migrated
    /\ market.ethRaised = 11
    /\ market.venueLiquidity = 6
    /\ market.liquidityFees = 0
    /\ migrateResult(Orchestrator) = "ok"

RECURSIVE SumTrades(_, _)
SumTrades(trades, field) ==
    IF trades = << >> THEN 0
    ELSE trades[Len(trades)][field]
             + SumTrades(SubSeq(trades, 1, Len(trades) - 1), field)

\* C28: an accepted buy never lowers currentSupply or currentPrice; every
\* trade record holds the supply the trade left and, as its price, base
\* price + slope * that supply; the last record's supply is currentSupply;
\* and from one buy to the buy logged right after it neither the supply
\* nor the price goes down.
C28_BuysMonotonic ==
    /\ [](LET t == market.trades
          IN  /\ \A k \in 1..Len(t) :
                    t[k].priceAfter = market.basePrice + market.slope * t[k].supplyAfter
              /\ t # << >>
                    => /\ t[Len(t)].supplyAfter = market.currentSupply
                       /\ t[Len(t)].priceAfter = currentPrice(market)
              /\ \A k \in 1..(Len(t) - 1) :
                    (t[k].isBuy /\ t[k + 1].isBuy)
                        => /\ t[k + 1].supplyAfter >= t[k].supplyAfter
                           /\ t[k + 1].priceAfter >= t[k].priceAfter)
    /\ [][market' # market =>
            \A s \in Traders : \A x \in BuyArgs :
               buy(s, x) => /\ market'.currentSupply >= market.currentSupply
                            /\ currentPrice(market') >= currentPrice(market)
                            /\ market'.currentSupply
                                   = market.currentSupply + tokensFor(market, x)]_vars

\* three buys in a row on a fresh market, each at a higher price
C28_Witness ==
    /\ Len(market.trades) = 3
    /\ \A k \in 1..3 : market.trades[k].isBuy
    /\ market.trades[1].priceAfter < market.trades[2].priceAfter
    /\ market.trades[2].priceAfter < market.trades[3].priceAfter
    /\ currentPrice(market) = market.basePrice + market.slope * 3

\* what a trader gets back who buys for x on market m and at once sells the
\* tokens received, and the market in between
AfterBuy(m, s, x) ==
    [m EXCEPT !.currentSupply = @ + tokensFor(m, x),
              !.ethRaised = @ + x,
              !.balances[s] = @ + tokensFor(m, x)]

RoundTripNet(m, s, x) ==
    LET d == tokensFor(m, x)
        gross == sellRefund(AfterBuy(m, s, x), d)
    IN  gross - sellFee(m, gross)

C30_FeeSplitExact ==
    /\ [](LET t == market.trades
          IN  /\ \A k \in 1..Len(t) :
                    /\ t[k].platformFee + t[k].liquidityFee + t[k].agentFee
                           = IF t[k].isBuy THEN t[k].ethAmount
                             ELSE t[k].ethAmount - t[k].netAmount
                    /\ t[k].platformFee >= 0
                    /\ t[k].liquidityFee >= 0
                    /\ t[k].agentFee >= 0
              /\ market.platformBps + market.liquidityBps + market.agentBps = 10000
              /\ market.platformBps = 3000
              /\ market.liquidityBps = 6000
              /\ market.agentBps = 1000
              /\ market.platformFees = SumTrades(t, "platformFee")
              /\ market.agentFees = SumTrades(t, "agentFee")
              /\ market.liquidityFees + market.venueLiquidity
                     = SumTrades(t, "liquidityFee"))
    /\ [][/\ market'.platformBps = market.platformBps
          /\ market'.liquidityBps = market.liquidityBps
          /\ market'.agentBps = market.agentBps]_vars

\* a buy of 5, which no share divides evenly, and a sell that paid a fee of 1
C30_Witness ==
    \E k, l \in 1..Len(market.trades) :
        /\ market.trades[k].isBuy
        /\ market.trades[k].ethAmount = 5
        /\ market.trades[k].platformFee = 1
        /\ market.trades[k].liquidityFee = 3
        /\ market.trades[k].agentFee = 1
        /\ ~market.trades[l].isBuy
        /\ market.trades[l].ethAmount - market.trades[l].netAmount = 1
        /\ market.trades[l].agentFee = 1

\* one whole buy run on market m: m itself when the buy is refused
buyOn(m, sender, ethAmount) ==
    LET d == tokensFor(m, ethAmount)
        f == feeSplit(m, ethAmount)
    IN  IF m.graduated \/ ~(ethAmount > 0)
           \/ m.currentSupply + d > m.totalSupplyCap
        THEN m
        ELSE [m EXCEPT
                !.currentSupply = @ + d,
                !.ethRaised = @ + ethAmount,
                !.platformFees = @ + f.platformFee,
                !.liquidityFees = @ + f.liquidityFee,
                !.agentFees = @ + f.agentFee,
                !.balances[sender] = @ + d,
                !.graduated = m.ethRaised + ethAmount >= m.graduationThreshold,
                !.trades = Append(@,
                    [ isBuy        |-> TRUE,
                      trader       |-> sender,
                      tokenAmount  |-> d,
                      ethAmount    |-> ethAmount,
                      netAmount    |-> ethAmount,
                      platformFee  |-> f.platformFee,
                      liquidityFee |-> f.liquidityFee,
                      agentFee     |-> f.agentFee,
                      supplyAfter  |-> m.currentSupply + d,
                      priceAfter   |-> m.basePrice
                                         + m.slope * (m.currentSupply + d) ])]

\* the market as it was before its last two trades, when both are buys and
\* nothing was migrated since
BeforeLastTwoBuys ==
    LET t == market.trades
        n == Len(t)
        a == t[n - 1]
        b == t[n]
        bal == [market.balances EXCEPT ![b.trader] = @ - b.tokenAmount]
    IN  [market EXCEPT
            !.currentSupply = a.supplyAfter - a.tokenAmount,
            !.ethRaised = @ - a.ethAmount - b.ethAmount,
            !.platformFees = @ - a.platformFee - b.platformFee,
            !.liquidityFees = @ - a.liquidityFee - b.liquidityFee,
            !.agentFees = @ - a.agentFee - b.agentFee,
            !.balances = [bal EXCEPT ![a.trader] = @ - a.tokenAmount],
            !.graduated = FALSE,
            !.trades = SubSeq(t, 1, n - 2)]

OrderListArgs ==
    UNION {[1..n -> {"a1", "a2", "a3"}] : n \in {2, 3}}
        \cup { <<"a1", "a2", "a3", "a4", "a1", "a2">>,
               <<"a1", "a2", "a3", "a1", "a2", "a3">>,
               <<"a3", "a3", "a3", "a3", "a3", "a3">> }

\* the list holds an agent that is not verified, or one agent twice
BadMembers(l) ==
    \/ \E k \in 1..Len(l) : ~verifiedAgents[l[k]]
    \/ \E j, k \in 1..Len(l) : j # k /\ l[j] = l[k]

\* C32: for a verified caller, a member list of fewer than 3 or more than 5
\* entries is refused with "Quorum too small" or "Quorum too large" whatever
\* it holds (duplicates, unverified members, no proposer); a list of valid
\* size that holds an unverified member or a duplicate is refused with
\* "Invalid quorum member" or "Duplicate quorum member" whether or not the
\* proposer is in it; and "Proposer must be in quorum" is the answer exactly
\* when the size and the members are in order and the caller is not listed.
C32_SizeBeforeLoop ==
    \A s \in ProposerArgs : \A l \in OrderListArgs :
        verifiedAgents[s] =>
            /\ Len(l) < 3 => createProposalResult(s, l) = "Quorum too small"
            /\ Len(l) > 5 => createProposalResult(s, l) = "Quorum too large"
            /\ (Len(l) \in 3..5 /\ BadMembers(l))
                  => createProposalResult(s, l)
                         \in {"Invalid quorum member", "Duplicate quorum member"}
            /\ createProposalResult(s, l) = "Proposer must be in quorum"
                  <=> (Len(l) \in 3..5 /\ ~BadMembers(l) /\ s \notin Range(l))

\* a verified caller outside the quorum and an unverified a3: the list of
\* six with duplicates and a3 is too large, the list of two is too small,
\* the list a1, a2, a3 has an invalid member, and a1, a2, a1 a duplicate
C32_Witness ==
    /\ verifiedAgents["a4"] /\ verifiedAgents["a1"] /\ verifiedAgents["a2"]
    /\ ~verifiedAgents["a3"]
    /\ createProposalResult("a4", <<"a1", "a2", "a3", "a1", "a2", "a3">>)
           = "Quorum too large"
    /\ createProposalResult("a4", <<"a3", "a3">>) = "Quorum too small"
    /\ createProposalResult("a4", <<"a1", "a2", "a3">>) = "Invalid quorum member"
    /\ createProposalResult("a4", <<"a1", "a2", "a1">>) = "Duplicate quorum member"

\* C33: an Active proposal whose deadline has passed is still stored and
\* reported by getProposal as Active, refuses every vote and accepts
\* finalizeProposal; mining a block changes no proposal; the only step that
\* changes the status of such a proposal is a finalizeProposal on it, which
\* makes it Failed; and when blocks keep being mined and finalizeProposal
\* keeps being called, every proposal that was created leaves Active.
C33_ExpiryNotSelfTriggering ==
    /\ [](\A i \in Created :
             (proposals[i].status = "Active" /\ now > proposals[i].votingDeadline)
                 => /\ getProposalResult(i) = "ok"
                    /\ getProposal(i).status = "Active"
                    /\ finalizeProposalResult(i) = "ok"
                    /\ \A s \in Accounts :
                          castVoteResult(s, i) = "Voting period ended")
    /\ [][now' # now => proposals' = proposals]_vars
    /\ [][proposals' # proposals =>
            \A i \in PidArgs :
               ( /\ i < proposalCount
                 /\ proposals[i].status = "Active"
                 /\ now > proposals[i].votingDeadline
                 /\ proposals'[i].status # "Active" )
                   => /\ proposals'[i].status = "Failed"
                      /\ \E s \in AnyoneArgs : finalizeProposal(s, i)]_vars
    /\ \A i \in PidArgs :
          (i < proposalCount) ~> (proposals[i].status # "Active")

\* a proposal two yes votes short of nothing but the third, still Active one
\* day after its deadline
C33_Witness ==
    \E i \in Created :
        /\ proposals[i].status = "Active"
        /\ proposals[i].yesVotes = 2
        /\ now = proposals[i].votingDeadline + 1
        /\ getProposal(i).status = "Active"
        /\ finalizeProposalResult(i) = "ok"

\* C34: recording a vote rewards the voter once, by either statement: an
\* INSERT of a quorum_members row with has_voted = TRUE, and an UPDATE that
\* sets has_voted = TRUE on a row that had it FALSE, are carried out and
\* raise the agent's reputation_score by 10 and total_votes_cast by 1; an
\* UPDATE of a row that already had has_voted = TRUE awards nothing.
C34_EveryVoteRewardedOnce ==
    \A q \in MirrorQuorums : \A a \in MirrorAgents :
        LET voted == [db.agents EXCEPT ![a].reputation_score = @ + 10,
                                       ![a].total_votes_cast = @ + 1]
        IN  /\ MemberRows(q, a) = {}
                  => /\ insertQuorumMemberResult(q, a, TRUE).error = "ok"
                     /\ insertQuorumMemberResult(q, a, TRUE).agents = voted
            /\ \A r \in MemberRows(q, a) :
                  /\ ~r.has_voted
                        => /\ updateQuorumMemberResult(q, a, TRUE).error = "ok"
                           /\ updateQuorumMemberResult(q, a, TRUE).agents = voted
                  /\ r.has_voted
                        => updateQuorumMemberResult(q, a, TRUE).agents = db.agents

\* C35: inserting a market row is carried out and gives each member of its
\* quorum +100 reputation_score and +1 total_markets_launched; the UPDATE
\* that takes a market row from graduated = FALSE to TRUE gives each member
\* +500 reputation_score and +1 successful_graduations; an UPDATE of a row
\* that is already graduated leaves every agent's row as it is.
C35_GraduationBonusOnce ==
    /\ \A id \in MarketIds : \A q \in MirrorQuorums :
          (MarketRows(id) = {} /\ MembersOfQuorum(db, q) # {})
              => /\ insertMarketResult(id, q, FALSE).error = "ok"
                 /\ insertMarketResult(id, q, FALSE).agents =
                      [a \in MirrorAgents |->
                          IF a \in MembersOfQuorum(db, q)
                          THEN [db.agents[a] EXCEPT
                                  !.reputation_score = @ + 100,
                                  !.total_markets_launched = @ + 1]
                          ELSE db.agents[a]]
    /\ \A r \in db.markets :
          /\ ~r.graduated
                => /\ updateMarketResult(r.id, TRUE).error = "ok"
                   /\ updateMarketResult(r.id, TRUE).agents =
                        [a \in MirrorAgents |->
                            IF a \in MembersOfQuorum(db, r.quorum_id)
                            THEN [db.agents[a] EXCEPT
                                    !.reputation_score = @ + 500,
                                    !.successful_graduations = @ + 1]
                            ELSE db.agents[a]]
          /\ r.graduated
                => \A g \in BOOLEAN : updateMarketResult(r.id, g).agents = db.agents

\* C36: for every created proposal, Active implies no no vote and fewer
\* yes votes than members; Passed or Executed implies as many yes votes as
\* members and no no vote; there is never more than one no vote; so a
\* finalizeProposal that is accepted always finds yesVotes short of the
\* member count, and the step it takes ends in Failed.
C36_TalliesDetermineStatus ==
    /\ [](\A i \in Created :
             LET p == proposals[i]
             IN  /\ p.status = "Active"
                    => (p.noVotes = 0 /\ p.yesVotes < Len(p.quorumMembers))
                 /\ p.status \in {"Passed", "Executed"}
                    => (p.yesVotes = Len(p.quorumMembers) /\ p.noVotes = 0)
                 /\ p.noVotes <= 1
                 /\ finalizeProposalResult(i) = "ok"
                    => p.yesVotes # Len(p.quorumMembers))
    /\ [][proposals' # proposals =>
            \A i \in PidArgs :
               ( /\ finalizeProposalResult(i) = "ok"
                 /\ \E s \in AnyoneArgs : finalizeProposal(s, i) )
                   => proposals'[i].status = "Failed"]_vars

\* a proposal with two of three yes votes that finalizeProposal closed as
\* Failed after its deadline
C36_Witness ==
    \E i \in Created :
        /\ proposals[i].status = "Failed"
        /\ proposals[i].noVotes = 0
        /\ proposals[i].yesVotes = 2
        /\ Len(proposals[i].quorumMembers) = 3
        /\ now > proposals[i].votingDeadline

\* C37: a step that changes a verified flag changes that one flag and
\* nothing else, so no proposal; a member of an Active proposal who has not
\* voted can vote before the deadline whether or not it is still verified;
\* a Passed proposal is launched by the registered factory whatever its
\* members' flags are, and the execution adds one to the reputation of
\* every member, the unverified ones included.
C37_RevocationNotRetroactive ==
    /\ [](\A i \in Created :
             /\ \A m \in Members(i) :
                   ( /\ proposals[i].status = "Active"
                     /\ now <= proposals[i].votingDeadline
                     /\ ~proposals[i].hasVoted[m] )
                       => castVoteResult(m, i) = "ok"
             /\ \A f \in Factories :
                   (proposals[i].status = "Passed" /\ bondingCurveFactory = f)
                       => /\ launchTokenResult(f, i) = "ok"
                          /\ \A m \in Members(i) :
                                executeProposalWrites(f, i).agentReputation[m]
                                    = agentReputation[m] + 1)
    /\ [][verifiedAgents' # verifiedAgents =>
            /\ \E a \in Accounts :
                  \A b \in Accounts \ {a} : verifiedAgents'[b] = verifiedAgents[b]
            /\ UNCHANGED <<now, admin, agentReputation, bondingCurveFactory,
                           proposals, proposalCount, factoryVars>>]_vars

\* member a3 was unverified while the proposal was Active with two yes
\* votes; its vote is still accepted
C37_Witness ==
    \E i \in Created :
        /\ "a3" \in Members(i)
        /\ ~verifiedAgents["a3"]
        /\ proposals[i].status = "Active"
        /\ proposals[i].yesVotes = 2
        /\ ~proposals[i].hasVoted["a3"]
        /\ castVoteResult("a3", i) = "ok"

\* C38: launchToken run by a factory other than the address stored in
\* bondingCurveFactory reverts for every proposal id; a step that creates a
\* token, appends to allTokens or sets a linkage does so in the factory
\* that is stored at that moment; and while bondingCurveFactory is still
\* the zero address no token exists and no proposal is Executed.
C38_UnregisteredFactoryCannotLaunch ==
    /\ [](/\ \A f \in Factories : \A i \in PidArgs :
                f # bondingCurveFactory => launchTokenResult(f, i) # "ok"
          /\ bondingCurveFactory = ZeroAddress
                => /\ tokens = {}
                   /\ \A f \in Factories : allTokens[f] = << >>
                   /\ \A i \in PidArgs : proposals[i].status # "Executed")
    /\ [][factoryVars' # factoryVars =>
            \A f \in Factories :
               ( \/ allTokens'[f] # allTokens[f]
                 \/ proposalToToken'[f] # proposalToToken[f]
                 \/ \E t \in tokens' \ tokens : t.factory = f )
                   => f = bondingCurveFactory]_vars

\* f1 launched a proposal while it was registered; then f2 was registered
\* in its place and f1 is refused on a Passed proposal
C38_Witness ==
    \E i \in Created : \E f \in Factories :
        /\ bondingCurveFactory \in Factories \ {f}
        /\ proposals[i].status = "Passed"
        /\ launchTokenResult(f, i) = "Only factory"
        /\ launchTokenResult(bondingCurveFactory, i) = "ok"

\* C39: for an id that was never created, castVote, finalizeProposal and
\* launchToken revert with "Proposal does not exist" for every caller and
\* factory; executeProposal reverts with "Proposal not passed" when the
\* registered factory address calls it and with "Only factory" otherwise;
\* the slot of such an id is still the unset record, and no token and no
\* linkage exists for it.
C39_UnknownIdChangesNothing ==
    \A i \in PidArgs :
        i >= proposalCount =>
            /\ \A s \in Accounts : castVoteResult(s, i) = "Proposal does not exist"
            /\ finalizeProposalResult(i) = "Proposal does not exist"
            /\ \A f \in Factories : launchTokenResult(f, i) = "Proposal does not exist"
            /\ \A s \in Accounts \cup Factories :
                  executeProposalResult(s, i) =
                      IF s = bondingCurveFactory THEN "Proposal not passed"
                      ELSE "Only factory"
            /\ executeProposalWrites(bondingCurveFactory, i).agentReputation
                   = agentReputation
            /\ proposals[i] = Proposal
            /\ LinkedIn(i) = {}
            /\ TokensOf(i) = {}

\* one proposal exists and was executed; the next id does not exist, and
\* the registered factory's executeProposal on it finds it not passed
C39_Witness ==
    /\ proposalCount = 1
    /\ proposals[0].status = "Executed"
    /\ bondingCurveFactory \in Factories
    /\ executeProposalResult(bondingCurveFactory, 1) = "Proposal not passed"
    /\ castVoteResult("a1", 1) = "Proposal does not exist"

\* C40: launchToken run by the registered factory on a Passed proposal is
\* accepted at every time, also after the voting deadline, and a step that
\* creates a token is a launchToken for every caller alike; a Passed
\* proposal refuses finalizeProposal with "Proposal not active" and its
\* next status is Passed or Executed; every token carries the member list
\* recorded in its proposal.
C40_LaunchPermissionless ==
    /\ [](/\ \A i \in Created : \A f \in Factories :
                (proposals[i].status = "Passed" /\ f = bondingCurveFactory)
                    => /\ launchTokenResult(f, i) = "ok"
                       /\ finalizeProposalResult(i) = "Proposal not active"
          /\ \A t \in tokens :
                t.quorumMembers = proposals[t.proposalId].quorumMembers)
    /\ [][vars' # vars =>
            /\ \A i \in PidArgs :
                  proposals[i].status = "Passed"
                      => proposals'[i].status \in {"Passed", "Executed"}
            /\ tokens' # tokens =>
                  \E f \in Factories : \E i \in PidArgs :
                      \A s \in Accounts : launchToken(f, s, i)]_vars

\* a proposal launched a day after its voting deadline
C40_Witness ==
    \E i \in Created :
        /\ proposals[i].status = "Executed"
        /\ now > proposals[i].votingDeadline
        /\ \E t \in tokens :
              /\ t.proposalId = i
              /\ t.quorumMembers = proposals[i].quorumMembers
              /\ t.factory = bondingCurveFactory

====
